---- MODULE Spec2Model ----
(***************************************************************************)
(* A model of api/webhook.py: the webhook handler, the e-mail pipeline     *)
(* (process_email), the completion-reply parser and the repository         *)
(* committer (create_github_pr), together with the hosting service the     *)
(* committer talks to and an external actor who changes the repository.    *)
(*                                                                         *)
(* Text is modelled as a sequence of one-character strings, so that        *)
(* lower(), split(), startswith() and the regular expressions are computed *)
(* as the code computes them.                                              *)
(***************************************************************************)
EXTENDS Integers, Sequences, FiniteSets, TLC

(***************************************************************************)
(* Bounds of the model.                                                    *)
(***************************************************************************)
\* the largest FileSet handed to the committer in SpecCommit
MaxFiles == 2
\* how many changes the external actor makes in one behaviour
MaxExt == 1
\* the longest reply, in lines, the parser is tried on in SpecParse
MaxLines == 4
\* the most entries of the repository's tree in SpecContext
MaxTree == 10
\* the longest body, in tokens, the repository is resolved from in SpecRepo
MaxTokens == 2
\* the last second the clock reaches in SpecTwoRuns
MaxClock == 2

(***************************************************************************)
(* Text helpers.                                                           *)
(***************************************************************************)
UpperChars == <<"A","B","C","D","E","F","G","H","I","J","K","L","M",
                "N","O","P","Q","R","S","T","U","V","W","X","Y","Z">>

LowerChars == <<"a","b","c","d","e","f","g","h","i","j","k","l","m",
                "n","o","p","q","r","s","t","u","v","w","x","y","z">>

\* str.lower() on one character
LowerChar(c) ==
    IF \E i \in 1..Len(UpperChars) : UpperChars[i] = c
    THEN LowerChars[CHOOSE i \in 1..Len(UpperChars) : UpperChars[i] = c]
    ELSE c

\* str.lower()
Lower(s) == [i \in 1..Len(s) |-> LowerChar(s[i])]

\* the index of the last "/" of s, 0 when there is none
LastSlash(s) ==
    IF \E i \in 1..Len(s) : s[i] = "/"
    THEN CHOOSE i \in 1..Len(s) : s[i] = "/" /\ \A j \in (i+1)..Len(s) : s[j] # "/"
    ELSE 0

\* s.split('/')[-1]
LastSegment(s) == SubSeq(s, LastSlash(s) + 1, Len(s))

STR_license == <<"l","i","c","e","n","s","e">>

STR_license_md == <<"l","i","c","e","n","s","e",".","m","d">>

STR_readme_md == <<"r","e","a","d","m","e",".","m","d">>

STR_gitignore == <<".","g","i","t","i","g","n","o","r","e">>

Digits == {"0","1","2","3","4","5","6","7","8","9"}

Letters == {UpperChars[i] : i \in 1..Len(UpperChars)} \cup {LowerChars[i] : i \in 1..Len(LowerChars)}

\* the regular expressions' class [\w-]
IsWord(c) == c \in Letters \cup Digits \cup {"_", "-"}

\* the characters str.strip() removes, and the regular expressions' \s
IsSpace(c) == c \in {" ", "\t", "\n", "\r"}

\* s.startswith(p)
StartsWith(s, p) == Len(s) >= Len(p) /\ SubSeq(s, 1, Len(p)) = p

\* s.endswith(p)
EndsWith(s, p) == Len(s) >= Len(p) /\ SubSeq(s, Len(s) - Len(p) + 1, Len(s)) = p

\* p occurs in s at position i
MatchAt(s, i, p) == i >= 1 /\ i + Len(p) - 1 <= Len(s) /\ SubSeq(s, i, i + Len(p) - 1) = p

RECURSIVE RemoveFrom(_, _, _)
\* s[i:].replace(old, ''): the occurrences are taken from the left and do not overlap
RemoveFrom(s, i, old) ==
    IF i > Len(s) THEN <<>>
    ELSE IF MatchAt(s, i, old) THEN RemoveFrom(s, i + Len(old), old)
    ELSE <<s[i]>> \o RemoveFrom(s, i + 1, old)

\* s.replace(old, '')
Remove(s, old) == RemoveFrom(s, 1, old)

\* s.strip()
Strip(s) ==
    IF \A i \in 1..Len(s) : IsSpace(s[i]) THEN <<>>
    ELSE LET first == CHOOSE i \in 1..Len(s) : ~IsSpace(s[i]) /\ \A j \in 1..(i - 1) : IsSpace(s[j])
             last == CHOOSE i \in 1..Len(s) : ~IsSpace(s[i]) /\ \A j \in (i + 1)..Len(s) : IsSpace(s[j])
         IN  SubSeq(s, first, last)

RECURSIVE SplitFrom(_, _, _)
\* s[i:].split(c) for a one-character separator c
SplitFrom(s, i, c) ==
    IF \E j \in i..Len(s) : s[j] = c
    THEN LET j == CHOOSE j \in i..Len(s) : s[j] = c /\ \A k \in i..(j - 1) : s[k] # c
         IN  <<SubSeq(s, i, j - 1)>> \o SplitFrom(s, j + 1, c)
    ELSE <<SubSeq(s, i, Len(s))>>

\* s.split(c)
Split(s, c) == SplitFrom(s, 1, c)

RECURSIVE Join(_, _)
\* c.join(parts)
Join(parts, c) ==
    IF parts = <<>> THEN <<>>
    ELSE IF Len(parts) = 1 THEN parts[1]
    ELSE parts[1] \o <<c>> \o Join(Tail(parts), c)

\* the length of the longest run of [\w-] characters of s that starts at i
WordRun(s, i) ==
    IF \E j \in i..Len(s) : ~IsWord(s[j])
    THEN (CHOOSE j \in i..Len(s) : ~IsWord(s[j]) /\ \A k \in i..(j - 1) : IsWord(s[k])) - i
    ELSE Len(s) - i + 1

(***************************************************************************)
(* Values.                                                                 *)
(***************************************************************************)
\* Python's None, and the empty string: the code tests both by truthiness only
None == <<>>

\* a value that is there
Some(x) == <<x>>

\* Python's truthiness of a string or None
Truthy(x) == x # <<>>

\* no file at a path
NoHash == 0

\* the hash of the next version of a file whose hash is h
NextVersion(h) == h + 1

RunIds == {1, 2}

\* the paths the committer is tried on (SpecCommit)
P_a == <<"a",".","p","y">>

P_license == <<"L","I","C","E","N","S","E">>

P_nested == <<"d","/","L","i","c","e","n","s","e">>

P_license_md == <<"l","i","c","e","n","s","e",".","m","d">>

PathPool == {P_a, P_license, P_nested, P_license_md}

\* the content of a file of SpecCommit's FileSets
SomeContent == <<"x">>

RECURSIVE SeqsUpTo(_, _)
\* the sequences over S of length at most n
SeqsUpTo(S, n) ==
    IF n = 0 THEN {<<>>}
    ELSE LET shorter == SeqsUpTo(S, n - 1)
         IN  shorter \cup {Append(q, x) : q \in {t \in shorter : Len(t) = n - 1}, x \in S}

\* a FileSet: an ordered mapping with unique paths (a Python dict)
IsFileSet(fs) == \A i, j \in 1..Len(fs) : fs[i].path = fs[j].path => i = j

FileSets ==
    {fs \in SeqsUpTo([path : PathPool, content : {SomeContent}], MaxFiles) :
        IsFileSet(fs)}

\* a file map: path -> hash, defined on the paths that exist
HashAt(m, p) == IF p \in DOMAIN m THEN m[p] ELSE NoHash

SetHash(m, p, h) == [q \in (DOMAIN m) \cup {p} |-> IF q = p THEN h ELSE m[q]]

(***************************************************************************)
(* generate_code_with_mistral: the parsing of the completion reply.        *)
(***************************************************************************)
NL == "\n"

FILE_MARK == <<"-","-","-","F","I","L","E",":">>

DASHES == <<"-","-","-">>

END_LINE == <<"-","-","-","E","N","D"," ","F","I","L","E","-","-","-">>

\* the character ` (a string literal of the module cannot hold it)
BT == "BACKTICK"

FENCE == <<BT, BT, BT>>

NL_FENCE == <<NL>> \o FENCE

DEFAULT_NAME == <<"g","e","n","e","r","a","t","e","d","_","c","o","d","e",".","p","y">>

\* files[key] = value on a dict kept as the sequence of its items, in insertion order
DictSet(d, key, value) ==
    IF \E i \in 1..Len(d) : d[i].path = key
    THEN [i \in 1..Len(d) |-> IF d[i].path = key THEN [path |-> key, content |-> value] ELSE d[i]]
    ELSE Append(d, [path |-> key, content |-> value])

\* line.startswith('---FILE:') and line.endswith('---')
IsFileLine(line) == StartsWith(line, FILE_MARK) /\ EndsWith(line, DASHES)

\* line.replace('---FILE:', '').replace('---', '').strip()
PathOfFileLine(line) == Strip(Remove(Remove(line, FILE_MARK), DASHES))

\* if current_file: files[current_file] = '\n'.join(current_content)
Flush(st) ==
    IF Truthy(st.current_file)
    THEN DictSet(st.files, st.current_file, Join(st.current_content, NL))
    ELSE st.files

\* the parser's state before the first line
ScanInit == [files |-> <<>>, current_file |-> None, current_content |-> <<>>]

\* one iteration of the loop over the reply's lines
ScanStep(st, line) ==
    IF IsFileLine(line)
    THEN [files |-> Flush(st), current_file |-> PathOfFileLine(line), current_content |-> <<>>]
    ELSE IF line = END_LINE
    THEN [files |-> Flush(st), current_file |-> None, current_content |-> <<>>]
    ELSE IF Truthy(st.current_file)
    THEN [st EXCEPT !.current_content = Append(@, line)]
    ELSE st

RECURSIVE ScanFrom(_, _, _)
ScanFrom(st, lines, i) ==
    IF i > Len(lines) THEN st ELSE ScanFrom(ScanStep(st, lines[i]), lines, i + 1)

\* a loop that stores the file still open after the last line
ScanReply_FlushAtEnd(content) == Flush(ScanFrom(ScanInit, Split(content, NL), 1))

\* files, after the loop over content.split('\n')
ScanReply(content) == ScanFrom(ScanInit, Split(content, NL), 1).files

\* the group of the match of ```(?:[\w-]+)?\n(.*?)\n``` (DOTALL) that starts at i,
\* as <<first, last>>; <<>> when no match starts at i
BlockAt(s, i) ==
    IF ~MatchAt(s, i, FENCE) THEN <<>>
    ELSE LET nl == i + 3 + WordRun(s, i + 3)
         IN  IF ~MatchAt(s, nl, <<NL>>) THEN <<>>
             ELSE IF \E e \in (nl + 1)..Len(s) : MatchAt(s, e, NL_FENCE)
             THEN <<nl + 1,
                    (CHOOSE e \in (nl + 1)..Len(s) :
                        MatchAt(s, e, NL_FENCE)
                        /\ \A f \in (nl + 1)..(e - 1) : ~MatchAt(s, f, NL_FENCE)) - 1>>
             ELSE <<>>

\* code_blocks is not empty
HasCodeBlock(s) == \E i \in 1..Len(s) : BlockAt(s, i) # <<>>

\* code_blocks[0]
FirstCodeBlock(s) ==
    LET i == CHOOSE i \in 1..Len(s) :
                BlockAt(s, i) # <<>> /\ \A j \in 1..(i - 1) : BlockAt(s, j) = <<>>
    IN  SubSeq(s, BlockAt(s, i)[1], BlockAt(s, i)[2])

\* a match of [\w-]+\.[\w-]+ starts at i
NameAt(line, i) ==
    /\ IsWord(line[i])
    /\ LET dot == i + WordRun(line, i)
       IN  dot + 1 <= Len(line) /\ line[dot] = "." /\ IsWord(line[dot + 1])

\* re.search(r'(?:[\w-]+\.[\w-]+)', line): group(0), or the default name
FilenameOf(line) ==
    IF \E i \in 1..Len(line) : NameAt(line, i)
    THEN LET i == CHOOSE i \in 1..Len(line) : NameAt(line, i) /\ \A j \in 1..(i - 1) : ~NameAt(line, j)
             dot == i + WordRun(line, i)
         IN  SubSeq(line, i, dot + WordRun(line, dot + 1))
    ELSE DEFAULT_NAME

\* a fallback chain that never looks for a fenced block
Fallback_WholeReply(content, files) ==
    IF files # <<>> THEN files ELSE <<[path |-> DEFAULT_NAME, content |-> content]>>

\* the fallback chain: if not files: ...
Fallback(content, files) ==
    IF files # <<>> THEN files
    ELSE IF HasCodeBlock(content)
    THEN <<[path |-> FilenameOf(Split(content, NL)[1]), content |-> FirstCodeBlock(content)]>>
    ELSE <<[path |-> DEFAULT_NAME, content |-> content]>>

\* re.sub(r'^```[\w-]*\n', '', c)
StripLeadingFence(c) ==
    IF StartsWith(c, FENCE) /\ MatchAt(c, 4 + WordRun(c, 4), <<NL>>)
    THEN SubSeq(c, 4 + WordRun(c, 4) + 1, Len(c))
    ELSE c

\* re.sub(r'\n```$', '', c): $ matches at the end and before a final newline
StripTrailingFence(c) ==
    IF EndsWith(c, NL_FENCE) THEN SubSeq(c, 1, Len(c) - 4)
    ELSE IF EndsWith(c, NL_FENCE \o <<NL>>) THEN SubSeq(c, 1, Len(c) - 5) \o <<NL>>
    ELSE c

\* the filter of unwanted files
IsUnwanted(filepath, files) ==
    /\ Lower(LastSegment(filepath)) \in {STR_readme_md, STR_license, STR_license_md, STR_gitignore}
    /\ Len(files) > 1

RECURSIVE CleanFrom(_, _, _)
CleanFrom(cleaned, files, i) ==
    IF i > Len(files) THEN cleaned
    ELSE IF IsUnwanted(files[i].path, files) THEN CleanFrom(cleaned, files, i + 1)
    ELSE CleanFrom(DictSet(cleaned, files[i].path,
                           StripTrailingFence(StripLeadingFence(files[i].content))),
                   files, i + 1)

\* cleaned_files
CleanFiles(files) == CleanFrom(<<>>, files, 1)

(***************************************************************************)
(* get_repo_context: the filter of the tree's paths and the cut.           *)
(***************************************************************************)
\* p in s
Contains(s, p) == \E i \in 1..(Len(s) + 1) : MatchAt(s, i, p)

important_keywords ==
    {<<"m","a","i","n",".","p","y">>,
     <<"a","p","p",".","p","y">>,
     <<"_","_","i","n","i","t","_","_",".","p","y">>,
     <<"r","e","q","u","i","r","e","m","e","n","t","s",".","t","x","t">>,
     <<"c","o","n","f","i","g">>,
     <<"m","o","d","e","l">>,
     <<"a","p","i">>,
     <<"e","n","d","p","o","i","n","t">>,
     <<"r","o","u","t","e">>,
     <<"s","e","r","v","e","r">>,
     <<"f","a","s","t","a","p","i">>,
     <<"f","l","a","s","k">>,
     <<"d","j","a","n","g","o">>,
     <<"p","a","c","k","a","g","e",".","j","s","o","n">>,
     <<"s","e","t","u","p",".","p","y">>}

\* should_include, for a blob under the size limit and the lowercased instruction
should_include(path, instruction_lower) ==
    LET filename == Lower(LastSegment(path))
    IN  \/ \E keyword \in important_keywords : Contains(filename, keyword)
        \/ \E keyword \in {Remove(filename, <<".","p","y">>), Remove(filename, <<".","j","s">>),
                            Lower(path)} :
               Contains(instruction_lower, keyword)
        \/ /\ EndsWith(filename, <<".","p","y">>)
           /\ \/ ~Contains(path, <<"/">>)
              \/ \E d \in {<<"s","r","c","/">>, <<"a","p","p","/">>, <<"a","p","i","/">>} :
                     StartsWith(path, d)

\* relevant_files[:8]
CONTEXT_LIMIT == 8

\* s[:n]
Take(s, n) == SubSeq(s, 1, IF Len(s) < n THEN Len(s) ELSE n)

\* relevant_files without the cut
relevant_files_Uncut(tree, instruction) ==
    SelectSeq(tree, LAMBDA path : should_include(path, Lower(instruction)))

\* relevant_files, after the loop over the tree and the cut
relevant_files(tree, instruction) ==
    Take(SelectSeq(tree, LAMBDA path : should_include(path, Lower(instruction))), CONTEXT_LIMIT)

\* the strings get_repo_context returns, by their first words
CTX_EMPTY == ""

CTX_NONE == "No relevant existing files found"

CTX_UNABLE == "Unable to fetch repository context due to an error"

CTX_FILES == "Existing Repository Structure and Code"

(***************************************************************************)
(* Repository resolution: extract_repo_from_email, get_repo_for_user and   *)
(* the choice process_email makes between them and the configured default. *)
(***************************************************************************)
\* the regular expressions' class [a-zA-Z0-9_.-]
IsSlug(c) == c \in Letters \cup Digits \cup {"_", ".", "-"}

\* the length of the longest run of slug characters of s that starts at i
SlugRun(s, i) ==
    IF \E j \in i..Len(s) : ~IsSlug(s[j])
    THEN (CHOOSE j \in i..Len(s) : ~IsSlug(s[j]) /\ \A k \in i..(j - 1) : IsSlug(s[k])) - i
    ELSE IF i > Len(s) THEN 0 ELSE Len(s) - i + 1

\* the length of the longest run of \s characters of s that starts at i
SpaceRun(s, i) ==
    IF \E j \in i..Len(s) : ~IsSpace(s[j])
    THEN (CHOOSE j \in i..Len(s) : ~IsSpace(s[j]) /\ \A k \in i..(j - 1) : IsSpace(s[k])) - i
    ELSE IF i > Len(s) THEN 0 ELSE Len(s) - i + 1

\* the patterns with the second one tried first
patterns_AtFirst ==
    <<[lit |-> <<"@">>, spaces |-> FALSE],
      [lit |-> <<"r","e","p","o",":">>, spaces |-> TRUE],
      [lit |-> <<"g","i","t","h","u","b",".","c","o","m","/">>, spaces |-> FALSE],
      [lit |-> <<"t","a","r","g","e","t",":">>, spaces |-> TRUE],
      [lit |-> <<"p","r","o","j","e","c","t",":">>, spaces |-> TRUE]>>

\* the patterns, in the order of the list: the literal each starts with, and
\* whether \s* follows it; each ends with ([a-zA-Z0-9_.-]+/[a-zA-Z0-9_.-]+)
patterns ==
    <<[lit |-> <<"r","e","p","o",":">>, spaces |-> TRUE],
      [lit |-> <<"@">>, spaces |-> FALSE],
      [lit |-> <<"g","i","t","h","u","b",".","c","o","m","/">>, spaces |-> FALSE],
      [lit |-> <<"t","a","r","g","e","t",":">>, spaces |-> TRUE],
      [lit |-> <<"p","r","o","j","e","c","t",":">>, spaces |-> TRUE]>>

\* group(1) of the match of pattern pat that starts at i (re.IGNORECASE), or None
GroupAt(text, i, pat) ==
    LET a == i + Len(pat.lit)
        b == IF pat.spaces THEN a + SpaceRun(text, a) ELSE a
        owner == SlugRun(text, b)
        name == SlugRun(text, b + owner + 1)
    IN  IF /\ i + Len(pat.lit) - 1 <= Len(text)
           /\ \A n \in 1..Len(pat.lit) : LowerChar(text[i + n - 1]) = pat.lit[n]
           /\ owner >= 1
           /\ MatchAt(text, b + owner, <<"/">>)
           /\ name >= 1
        THEN SubSeq(text, b, b + owner + name)
        ELSE None

\* re.search(pattern, text, re.IGNORECASE): group(1) of the leftmost match, or None
Search(pat, text) ==
    LET starts == {i \in 1..Len(text) : GroupAt(text, i, pat) # None}
    IN  IF starts = {} THEN None
        ELSE GroupAt(text, CHOOSE i \in starts : \A j \in starts : i <= j, pat)

\* the first pattern of the list that matches gives the repository
FirstMatch(pats, text) ==
    LET found == [k \in 1..Len(pats) |-> Search(pats[k], text)]
        matching == {k \in 1..Len(pats) : found[k] # None}
    IN  IF matching = {} THEN None
        ELSE found[CHOOSE k \in matching : \A l \in matching : k <= l]

extract_repo_from_email(subject, body) == FirstMatch(patterns, subject \o <<" ">> \o body)

MAILFORGE_TEST_TARGET == <<"b","O","-","0","5","/","m","a","i","l","f","o","r","g","e","-","t","e","s","t","-","t","a","r","g","e","t">>

HIDROKULTUR == <<"h","i","d","r","o","k","u","l","t","u","r",".","c","o","m">>

\* the keys of email_to_repo; each maps to MAILFORGE_TEST_TARGET
email_to_repo == {<<"i","c","a","r","u","s","@","h","i","d","r","o","k","u","l","t","u","r",".","c","o","m">>,
                  <<"p","r","-","c","r","e","a","t","o","r","@","h","i","d","r","o","k","u","l","t","u","r",".","c","o","m">>,
                  <<"d","e","v","@","h","i","d","r","o","k","u","l","t","u","r",".","c","o","m">>}

\* from_email.split('@')[-1] if '@' in from_email else ''
DomainOf(from_email) ==
    IF \E i \in 1..Len(from_email) : from_email[i] = "@"
    THEN LET parts == Split(from_email, "@") IN parts[Len(parts)]
    ELSE <<>>

get_repo_for_user(from_email) ==
    IF from_email \in email_to_repo THEN MAILFORGE_TEST_TARGET
    ELSE IF DomainOf(from_email) = HIDROKULTUR THEN MAILFORGE_TEST_TARGET
    ELSE None

\* os.environ.get("GITHUB_REPO", "bO-05/mailforge-test-target"); None: not set
ConfiguredDefault(e) == IF e.GITHUB_REPO = None THEN MAILFORGE_TEST_TARGET ELSE e.GITHUB_REPO

\* target_repo
TargetRepo(subject, text_body, from_email, e) ==
    LET dynamic_repo == extract_repo_from_email(subject, text_body)
    IN  IF Truthy(dynamic_repo) THEN dynamic_repo
        ELSE IF Truthy(get_repo_for_user(from_email)) THEN get_repo_for_user(from_email)
        ELSE ConfiguredDefault(e)

(***************************************************************************)
(* handler.do_POST and handler.is_test_webhook.                            *)
(***************************************************************************)
WEBHOOK_PATH == "/api/webhook"

\* a decoded JSON value: an object, kept as the sequence of its <<key, value>>
\* items, or a number
JsonObject(items) == [type |-> "dict", items |-> items]

JsonNumber == [type |-> "int", items |-> <<>>]

\* key in data
HasKey(data, key) == \E i \in 1..Len(data.items) : data.items[i][1] = key

\* data.get(key, default)
Get(data, key, default) ==
    IF HasKey(data, key)
    THEN data.items[CHOOSE i \in 1..Len(data.items) : data.items[i][1] = key][2]
    ELSE default

RECURSIVE IntOf(_)
\* int(s) of a string of decimal digits
IntOf(s) ==
    IF s = <<>> THEN 0
    ELSE 10 * IntOf(SubSeq(s, 1, Len(s) - 1))
         + (CHOOSE d \in 0..9 : <<"0","1","2","3","4","5","6","7","8","9">>[d + 1] = s[Len(s)])

\* int(self.headers.get('Content-Length', 0)): the header is None when absent
ContentLength(header) ==
    IF header = None THEN [exc |-> "", value |-> 0]
    ELSE IF \A i \in 1..Len(header) : header[i] \in Digits
    THEN [exc |-> "", value |-> IntOf(header)]
    ELSE [exc |-> "ValueError", value |-> 0]

\* json.loads(post_data): the bytes are decoded, then parsed
JsonLoads(body) ==
    IF ~body.utf8 THEN [exc |-> "UnicodeDecodeError", value |-> JsonNumber]
    ELSE IF ~body.json THEN [exc |-> "JSONDecodeError", value |-> JsonNumber]
    ELSE [exc |-> "", value |-> body.value]

required_fields == <<"From", "Subject", "MessageID">>

\* not data
IsEmptyValue(data) == data.type = "dict" /\ data.items = <<>>

\* key in data raises TypeError when data is a number
InRaises(data) == data.type = "int"

is_test_webhook(data) ==
    IF IsEmptyValue(data) THEN [exc |-> "", value |-> TRUE]
    ELSE IF InRaises(data) THEN [exc |-> "TypeError", value |-> FALSE]
    ELSE IF ~HasKey(data, "From") /\ ~HasKey(data, "FromFull") THEN [exc |-> "", value |-> TRUE]
    ELSE IF ~\A i \in 1..Len(required_fields) : HasKey(data, required_fields[i])
    THEN [exc |-> "", value |-> TRUE]
    ELSE [exc |-> "", value |-> FALSE]

\* a response body, or a result of process_email: the JSON object's fields,
\* "" and 0 for the fields it does not have
Body(error, status, message, reason, type, files_created) ==
    [error |-> error, status |-> status, message |-> message, reason |-> reason,
     type |-> type, files_created |-> files_created, pr_url |-> None]

NoBody == Body("", "", "", "", "", 0)

TestAck == Body("", "ok", "Test webhook received", "", "", 0)

Response(code, body) == [code |-> code, body |-> body]

\* except Exception: send_response(500)
HandlerErrorCode(exc) == 500

\* do_POST up to the call of process_email: the response, or "call"
BeforePipeline(req) ==
    IF req.path # WEBHOOK_PATH THEN [resp |-> Response(404, NoBody), call |-> FALSE]
    ELSE LET content_length == ContentLength(req.content_length)
             loaded == JsonLoads(req.body)
             test == is_test_webhook(loaded.value)
             Failed(exc) == [resp |-> Response(HandlerErrorCode(exc), Body(exc, "", "", "", exc, 0)),
                             call |-> FALSE]
         IN  IF content_length.exc # "" THEN Failed(content_length.exc)
             ELSE IF content_length.value = 0
             THEN [resp |-> Response(400, Body("Empty request body", "", "", "", "", 0)), call |-> FALSE]
             ELSE IF loaded.exc = "JSONDecodeError"
             THEN [resp |-> Response(400, Body("Invalid JSON", "", "", "", "", 0)), call |-> FALSE]
             ELSE IF loaded.exc # "" THEN Failed(loaded.exc)
             ELSE IF test.exc # "" THEN Failed(test.exc)
             ELSE IF test.value THEN [resp |-> Response(200, TestAck), call |-> FALSE]
             ELSE [resp |-> Response(0, NoBody), call |-> TRUE]

(***************************************************************************)
(* The inputs the specifications draw from.                                *)
(***************************************************************************)
L_file_a == <<"-","-","-","F","I","L","E",":"," ","a",".","p","y","-","-","-">>

L_file_readme == <<"-","-","-","F","I","L","E",":"," ","R","E","A","D","M","E",".","m","d","-","-","-">>

L_file_empty == <<"-","-","-","F","I","L","E",":","-","-","-">>

L_code == <<"x","=","1">>

L_fence_py == <<BT,BT,BT,"p","y">>

L_fence == <<BT,BT,BT>>

L_prose == <<"s","e","e"," ","m",".","j","s">>

P_b == <<"b",".","p","y">>

\* the line that opens the block of a path, as the prompt asks for it
Header(path) == FILE_MARK \o <<" ">> \o path \o DASHES

BlockPaths == {P_a, P_b}

BlockBodies == {<<>>, <<L_code>>, <<L_code, L_prose>>}

\* the sequences of blocks with distinct paths
BlockSeqs ==
    {bs \in SeqsUpTo([path : BlockPaths, body : BlockBodies], Cardinality(BlockPaths)) :
        \A i, j \in 1..Len(bs) : bs[i].path = bs[j].path => i = j}

RECURSIVE BlockLines(_)
BlockLines(bs) ==
    IF bs = <<>> THEN <<>>
    ELSE <<Header(Head(bs).path)>> \o Head(bs).body \o <<END_LINE>> \o BlockLines(Tail(bs))

\* the well-formed reply that holds the blocks bs
Render(bs) == Join(BlockLines(bs), NL)

WellFormedReplies == {Render(bs) : bs \in BlockSeqs}

LinePool == {L_file_a, L_file_readme, L_file_empty, END_LINE, L_code, L_fence_py, L_fence, L_prose}

ParseReplies == {Join(ls, NL) : ls \in SeqsUpTo(LinePool, MaxLines)} \cup WellFormedReplies

\* the replies of the completion service in a run of the pipeline: plain text,
\* one delimited block, a fenced block under a line that names a file
L_names_license == <<"L","I","C","E","N","S","E",".","m","d",":">>

PipeReplies ==
    {L_code,
     Render(<<[path |-> P_a, body |-> <<L_code>>]>>),
     Join(<<L_prose, L_fence, L_code, L_fence>>, NL),
     Join(<<L_names_license, L_fence, L_code, L_fence>>, NL)}

\* the paths a repository holds when its tree is listed, in the order of the listing
TreeOrder ==
    <<<<"a",".","p","y">>,
      <<"b",".","p","y">>,
      <<"c",".","p","y">>,
      <<"d",".","p","y">>,
      <<"d","/","c","o","n","f","i","g">>,
      <<"d","/","x",".","m","d">>,
      <<"e",".","p","y">>,
      <<"f",".","p","y">>,
      <<"g",".","p","y">>,
      <<"g","e","n","e","r","a","t","e","d","_","c","o","d","e",".","p","y">>,
      <<"h",".","p","y">>,
      <<"i",".","p","y">>,
      <<"j",".","p","y">>>>

\* the instructions get_repo_context is tried on in SpecContext
CtxInstructions == {<<"a","d","d"," ","t","e","s","t","s">>, <<"F","i","x"," ","D","/","X",".","m","d">>}

Fields == <<"From", "FromFull", "Subject", "StrippedTextReply", "TextBody", "MessageID">>

\* the value of each field in the payloads
FieldValue ==
    [From |-> <<"D"," ","<","d","e","v","@","h","i","d","r","o","k","u","l","t","u","r",".","c","o","m",">">>,
     FromFull |-> <<"x","@","b",".","c">>,
     Subject |-> <<"s">>,
     StrippedTextReply |-> <<"a","d","d"," ","x">>,
     TextBody |-> <<"r","e","p","o",":"," ","o","/","r">>,
     MessageID |-> <<"m","1">>]

RECURSIVE ItemsOf(_, _, _)
\* the items of the object that has the fields keys, with the values of vals
ItemsOf(keys, vals, i) ==
    IF i > Len(Fields) THEN <<>>
    ELSE (IF Fields[i] \in keys THEN <<<<Fields[i], vals[Fields[i]]>>>> ELSE <<>>)
         \o ItemsOf(keys, vals, i + 1)

AllFields == {Fields[i] : i \in 1..Len(Fields)}

\* every subset of the fields, and four more payloads: a blank body, an empty
\* sender, an empty Email in FromFull, an empty sender with a blank body
Payloads ==
    {JsonObject(ItemsOf(keys, FieldValue, 1)) : keys \in SUBSET AllFields}
    \cup {JsonObject(ItemsOf(AllFields \ {"FromFull", "StrippedTextReply"},
                             [FieldValue EXCEPT !.TextBody = <<" ", "\n">>], 1)),
          JsonObject(ItemsOf(AllFields \ {"FromFull"}, [FieldValue EXCEPT !.From = <<>>], 1)),
          JsonObject(ItemsOf(AllFields, [FieldValue EXCEPT !.FromFull = <<>>], 1)),
          JsonObject(ItemsOf(AllFields \ {"FromFull", "StrippedTextReply"},
                             [FieldValue EXCEPT !.From = <<>>, !.TextBody = <<" ">>], 1))}

\* the bodies: bytes that are not UTF-8, text that is not JSON, a JSON number,
\* and the payloads
Bodies ==
    {[utf8 |-> FALSE, json |-> FALSE, value |-> JsonNumber],
     [utf8 |-> TRUE, json |-> FALSE, value |-> JsonNumber],
     [utf8 |-> TRUE, json |-> TRUE, value |-> JsonNumber]}
    \cup {[utf8 |-> TRUE, json |-> TRUE, value |-> d] : d \in Payloads}

\* the Content-Length header: absent, 0, the length of the body, not a number
ContentLengths == {None, <<"0">>, <<"4","2">>, <<"x">>}

Requests ==
    [path : {WEBHOOK_PATH}, content_length : ContentLengths, body : Bodies]
    \cup [path : {"/"}, content_length : {<<"4","2">>},
          body : {[utf8 |-> TRUE, json |-> TRUE, value |-> JsonObject(<<>>)]}]

\* the words a subject or a body is made of: the marker each one is (0: none,
\* else the place of its pattern in the order repo:, @, github.com/, target:,
\* project:), the repository it names, and its text
Tokens ==
    {[marker |-> 0, repo |-> None, text |-> <<"f","i","x">>],
     [marker |-> 1, repo |-> <<"a","/","r">>, text |-> <<"r","e","p","o",":"," ","a","/","r">>],
     [marker |-> 1, repo |-> <<"b","/","R">>, text |-> <<"R","E","P","O",":","\t","b","/","R">>],
     [marker |-> 2, repo |-> <<"a","/","t">>, text |-> <<"@","a","/","t">>],
     [marker |-> 3, repo |-> <<"a","/","u">>, text |-> <<"g","i","t","h","u","b",".","c","o","m","/","a","/","u">>],
     [marker |-> 4, repo |-> <<"a","/","g">>, text |-> <<"t","a","r","g","e","t",":","a","/","g">>],
     [marker |-> 5, repo |-> <<"a","/","p">>, text |-> <<"P","r","o","j","e","c","t",":"," "," ","a","/","p">>]}

\* the text of a sequence of tokens
TextOf(ts) == Join([i \in 1..Len(ts) |-> ts[i].text], " ")

SubjectTokens == SeqsUpTo(Tokens, 1)

BodyTokens == SeqsUpTo(Tokens, MaxTokens)

\* the senders, and what the tables know of each
Senders ==
    {[address |-> <<"d","e","v","@","h","i","d","r","o","k","u","l","t","u","r",".","c","o","m">>, known |-> "sender"],
     [address |-> <<"x","@","h","i","d","r","o","k","u","l","t","u","r",".","c","o","m">>, known |-> "domain"],
     [address |-> <<"a","@","b","@","h","i","d","r","o","k","u","l","t","u","r",".","c","o","m">>, known |-> "domain"],
     [address |-> <<"x","@","b",".","c">>, known |-> "no"],
     [address |-> <<"n","o","b","o","d","y">>, known |-> "no"]}

OTHER_REPO == <<"o","/","d">>

(***************************************************************************)
(* State.                                                                  *)
(***************************************************************************)
VARIABLES
    env,          \* os.environ: which configuration values are set
    defaultName,  \* hosting: the repository's default branch
    commits,      \* hosting: the default branch's commits, each a file map; the last is its head
    branches,     \* hosting: the other branches, name -> file map
    now,          \* the clock datetime.now() reads, in seconds
    extLeft,      \* changes the external actor may still make
    log,          \* every request issued, in order
    cm,           \* create_github_pr: the locals of each run
    gen,          \* generate_code_with_mistral: its locals
    pe,           \* process_email: its locals
    hd            \* handler.do_POST: the request and the response

vars == <<env, defaultName, commits, branches, now, extLeft, log, cm, gen, pe, hd>>

hostVars == <<defaultName, commits, branches>>

\* what neither the committer nor the external actor changes
outsideCommit == <<env, now, gen, pe, hd>>

\* what the parser does not change
outsideGen == <<env, hostVars, now, extLeft, log, cm, pe, hd>>

\* the default branch's head file map
HeadFiles == commits[Len(commits)]

\* the file map a ref names; an unknown ref has none
HasRef(ref) == ref = defaultName \/ ref \in DOMAIN branches

RefFiles(ref) == IF ref = defaultName THEN HeadFiles ELSE branches[ref]

\* a branch name
MainBranch == <<"main", 0>>

TrunkBranch == <<"trunk", 0>>

\* one entry of the log
Entry(r, req, path, ref, sha, status, prior, ext) ==
    [run |-> r, req |-> req, path |-> path, ref |-> ref, sha |-> sha,
     status |-> status, prior |-> prior, ext |-> ext]

NoPath == <<>>

NoRef == <<"", 0>>

\* a run of create_github_pr that was not called
IdleRun ==
    [pc |-> "idle", files |-> <<>>, idx |-> 0, default |-> NoRef, base_sha |-> 0,
     branch |-> NoRef, sha |-> None, result |-> None, exc |-> "", ext |-> {}]

\* run r has resolved the base hash and has not yet left its file loop
InCommit(r) == cm[r].pc \in {"create_branch", "loop", "read", "put"}

\* cm after the external actor changed path p on ref: each run that has read p
\* and not yet written it notes the ref (field ext, which the code does not have)
Noted(ref, p) ==
    [r \in RunIds |->
        IF cm[r].pc = "put" /\ cm[r].files[cm[r].idx].path = p
        THEN [cm[r] EXCEPT !.ext = @ \cup {ref}]
        ELSE cm[r]]

Record(e) == log' = Append(log, e)

\* process_email when it is not called
IdlePe ==
    [pc |-> "idle", data |-> JsonObject(<<>>), from_email |-> <<>>, subject |-> <<>>,
     text_body |-> <<>>, target_repo |-> <<>>, relevant_files |-> <<>>, fetched |-> 0,
     included |-> <<>>, repo_context |-> None,
     files_created |-> 0, exc |-> "", result |-> NoBody]

NoRequest == [path |-> "", content_length |-> None,
              body |-> [utf8 |-> TRUE, json |-> TRUE, value |-> JsonObject(<<>>)]]

\* do_POST when it is not called
IdleHd == [pc |-> "idle", req |-> NoRequest, resp |-> Response(0, NoBody)]

\* generate_code_with_mistral when it is not called
IdleGen ==
    [pc |-> "idle", content |-> <<>>, files |-> <<>>, cleaned_files |-> <<>>,
     re_bound |-> FALSE, exc |-> ""]

\* the function's local name re is bound only by the import re of the fallback branch
ReBoundBy(files) == files = <<>>

\* re.sub in the cleaning loop reads the local name re once for each file
CleanRaises(files, re_bound) == files # <<>> /\ ~re_bound

(***************************************************************************)
(* generate_code_with_mistral after the reply was received: the loop over  *)
(* its lines, the fallback chain, the cleaning loop.                       *)
(***************************************************************************)
GenScan ==
    /\ gen.pc = "scan"
    /\ gen' = [gen EXCEPT !.pc = "fallback", !.files = ScanReply(gen.content)]
    /\ UNCHANGED outsideGen

GenFallback ==
    /\ gen.pc = "fallback"
    /\ gen' = [gen EXCEPT !.pc = "clean",
                          !.re_bound = ReBoundBy(gen.files),
                          !.files = Fallback(gen.content, gen.files)]
    /\ UNCHANGED outsideGen

GenClean ==
    /\ gen.pc = "clean"
    /\ IF CleanRaises(gen.files, gen.re_bound)
       THEN gen' = [gen EXCEPT !.pc = "raised", !.exc = "UnboundLocalError"]
       ELSE gen' = [gen EXCEPT !.pc = "returned", !.cleaned_files = CleanFiles(gen.files)]
    /\ UNCHANGED outsideGen

Generator ==
    \/ GenScan
    \/ GenFallback
    \/ GenClean

(***************************************************************************)
(* The external actor: somebody else who pushes to the repository while a  *)
(* run of the committer is in progress. A push gives the file its next     *)
(* version.                                                                *)
(***************************************************************************)
\* the paths some run is committing
WatchedPaths == UNION {{cm[r].files[i].path : i \in 1..Len(cm[r].files)} : r \in RunIds}

\* a push to the default branch that creates or changes one file. A push made
\* before the base hash is resolved is a different initial repository.
ExtModifyDefault ==
    /\ extLeft > 0
    /\ \E r \in RunIds : InCommit(r)
    /\ \E p \in WatchedPaths :
        /\ commits' = Append(commits, SetHash(HeadFiles, p, NextVersion(HashAt(HeadFiles, p))))
        /\ cm' = Noted(defaultName, p)
    /\ extLeft' = extLeft - 1
    /\ UNCHANGED <<outsideCommit, defaultName, branches, log>>

\* a push to another branch that creates or changes one file
ExtModifyBranch ==
    /\ extLeft > 0
    /\ \E r \in RunIds : InCommit(r)
    /\ \E b \in DOMAIN branches, p \in WatchedPaths :
        /\ branches' = [branches EXCEPT ![b] = SetHash(@, p, NextVersion(HashAt(branches[b], p)))]
        /\ cm' = Noted(b, p)
    /\ extLeft' = extLeft - 1
    /\ UNCHANGED <<outsideCommit, defaultName, commits, log>>

(***************************************************************************)
(* create_github_pr, one action per request it issues.                     *)
(***************************************************************************)
\* branch = f"email-pr-{timestamp}"
BranchName(t) == <<"email-pr-", t>>

\* a skip test that does not look at the number of files
IsSkipped_AnyCount(path, files) == Lower(path) \in {STR_license, STR_license_md}

\* a skip test on the final segment of the path
IsSkipped_FinalSegment(path, files) ==
    Lower(LastSegment(path)) \in {STR_license, STR_license_md} /\ Len(files) > 1

\* the committer's skip test
IsSkipped(path, files) ==
    Lower(path) \in {STR_license, STR_license_md} /\ Len(files) > 1

\* the hash of the file before is kept
ShaAtFileStart_Keep(prev) == prev

\* sha = None, at the top of each file's iteration
ShaAtFileStart(prev) == None

\* the hash of the answer is not taken
ShaAfterRead_Ignored(prev, status, respSha) == prev

\* if head.status_code == 200: sha = head.json()["sha"]
ShaAfterRead(prev, status, respSha) == IF status = 200 THEN Some(respSha) ELSE prev

\* the hash is never attached
BodySha_Never(sha) == None

\* if sha: body["sha"] = sha  (None: the body has no sha)
BodySha(sha) == IF Truthy(sha) THEN sha ELSE None

\* body["branch"]: the branch a write goes to
WriteBranch(run) == run.branch

\* an existence read of the branch the write goes to
ReadRef_NewBranch(run) == run.branch

\* the ref of the existence read: ?ref={default}
ReadRef(run) == run.default

\* a status test that lets every answer pass
PutFailed_Never(status) == FALSE

\* put.status_code not in (200, 201)
PutFailed(status) == status \notin {200, 201}

\* the exception leaves create_github_pr
Raise(r, exc) == cm' = [cm EXCEPT ![r].pc = "raised", ![r].exc = exc]

\* headers (os.environ['GITHUB_TOKEN']), timestamp and branch name
CmStart(r) ==
    /\ cm[r].pc = "start"
    /\ IF env.GITHUB_TOKEN
       THEN cm' = [cm EXCEPT ![r].pc = "get_repo", ![r].branch = BranchName(now)]
       ELSE Raise(r, "KeyError")
    /\ UNCHANGED <<outsideCommit, hostVars, extLeft, log>>

\* repo_json = requests.get(.../repos/{target_repo}).json(); default = repo_json.get("default_branch", "main")
CmGetRepo(r) ==
    /\ cm[r].pc = "get_repo"
    /\ \E status \in {200, 404, 0} :
        /\ Record(Entry(r, "get_repo", NoPath, NoRef, None, status, NoHash, {}))
        /\ CASE status = 200 -> cm' = [cm EXCEPT ![r].pc = "get_ref", ![r].default = defaultName]
             [] status = 404 -> cm' = [cm EXCEPT ![r].pc = "get_ref", ![r].default = MainBranch]
             [] OTHER -> Raise(r, "ConnectionError")
    /\ UNCHANGED <<outsideCommit, hostVars, extLeft>>

\* base_sha = requests.get(.../git/refs/heads/{default}).json()["object"]["sha"]
CmGetRef(r) ==
    /\ cm[r].pc = "get_ref"
    /\ \E status \in (IF HasRef(cm[r].default) THEN {200} ELSE {}) \cup {404} :
        /\ Record(Entry(r, "get_ref", NoPath, cm[r].default, None, status, NoHash, {}))
        /\ IF status = 200
           THEN cm' = [cm EXCEPT ![r].pc = "create_branch", ![r].base_sha = Len(commits)]
           ELSE Raise(r, "KeyError")
    /\ UNCHANGED <<outsideCommit, hostVars, extLeft>>

\* a status test that fails on the answers of a broken service only
BranchFailed_OnServerError(status) == status >= 500

\* a status test that lets every answer pass
BranchFailed_Never(status) == FALSE

\* branch_response.status_code != 201
BranchFailed(status) == status # 201

\* the branch-creation request and its status test
CmCreateBranch(r) ==
    /\ cm[r].pc = "create_branch"
    /\ \E status \in (IF HasRef(cm[r].branch) THEN {} ELSE {201}) \cup {422} :
        /\ Record(Entry(r, "create_branch", NoPath, cm[r].branch, Some(cm[r].base_sha), status, NoHash, {}))
        /\ IF BranchFailed(status)
           THEN /\ Raise(r, "Exception")
                /\ UNCHANGED branches
           ELSE /\ cm' = [cm EXCEPT ![r].pc = "loop", ![r].idx = 1]
                /\ branches' = (cm[r].branch :> commits[cm[r].base_sha]) @@ branches
    /\ UNCHANGED <<outsideCommit, defaultName, commits, extLeft>>

\* for path, content in files.items(): the skip test, and sha = None
CmLoop(r) ==
    /\ cm[r].pc = "loop"
    /\ LET run == cm[r]
       IN  IF run.idx > Len(run.files)
           THEN cm' = [cm EXCEPT ![r].pc = "open_pr"]
           ELSE IF IsSkipped(run.files[run.idx].path, run.files)
           THEN cm' = [cm EXCEPT ![r].idx = @ + 1]
           ELSE cm' = [cm EXCEPT ![r].pc = "read", ![r].sha = ShaAtFileStart(@)]
    /\ UNCHANGED <<outsideCommit, hostVars, extLeft, log>>

\* head = requests.get(.../contents/{path}?ref={default})
CmRead(r) ==
    /\ cm[r].pc = "read"
    /\ LET run == cm[r]
           path == run.files[run.idx].path
           ref == ReadRef(run)
           live == IF HasRef(ref) THEN HashAt(RefFiles(ref), path) ELSE NoHash
       IN  \E status \in (IF live # NoHash THEN {200} ELSE {404}) \cup {500, 0} :
            /\ Record(Entry(r, "get_file", path, ref,
                            IF status = 200 THEN Some(live) ELSE None, status, NoHash, {}))
            /\ IF status = 0
               THEN Raise(r, "ConnectionError")
               ELSE cm' = [cm EXCEPT ![r].pc = "put", ![r].ext = {},
                                     ![r].sha = ShaAfterRead(@, status, live)]
    /\ UNCHANGED <<outsideCommit, hostVars, extLeft>>

\* the hosting service's answer to a write of path on branch ref carrying sha
PutStatuses(live, sha) ==
    (CASE live = NoHash /\ sha = None -> {201}
       [] live = NoHash /\ sha # None -> {201, 422}
       [] live # NoHash /\ sha = None -> {422}
       [] live # NoHash /\ sha = Some(live) -> {200}
       [] OTHER -> {409}) \cup {500}

\* put = requests.put(.../contents/{path}, json=body) and its status test
CmPut(r) ==
    /\ cm[r].pc = "put"
    /\ LET run == cm[r]
           file == run.files[run.idx]
           ref == WriteBranch(run)
           sha == BodySha(run.sha)
           live == IF HasRef(ref) THEN HashAt(RefFiles(ref), file.path) ELSE NoHash
       IN  \E status \in (IF HasRef(ref) THEN PutStatuses(live, sha) ELSE {404}) :
            /\ Record(Entry(r, "put_file", file.path, ref, sha, status, live, run.ext))
            /\ IF PutFailed(status)
               THEN Raise(r, "RuntimeError")
               ELSE cm' = [cm EXCEPT ![r].pc = "loop", ![r].idx = @ + 1]
            /\ IF status \in {200, 201}
               THEN IF ref = defaultName
                    THEN /\ commits' = Append(commits, SetHash(HeadFiles, file.path, NextVersion(live)))
                         /\ UNCHANGED branches
                    ELSE /\ branches' = [branches EXCEPT ![ref] = SetHash(@, file.path, NextVersion(live))]
                         /\ UNCHANGED commits
               ELSE UNCHANGED <<commits, branches>>
    /\ UNCHANGED <<outsideCommit, defaultName, extLeft>>

\* an answer that has the pull request's fields whatever the status
HasHtmlUrl_Always(status) == TRUE

\* pr["html_url"]: only the answer to an accepted request describes a pull request
HasHtmlUrl(status) == status = 201

\* pr = requests.post(.../pulls).json(); return pr["html_url"], pr["number"]
CmOpenPr(r) ==
    /\ cm[r].pc = "open_pr"
    /\ \E status \in {201, 422} :
        /\ Record(Entry(r, "create_pr", NoPath, cm[r].branch, None, status, NoHash, {}))
        /\ IF HasHtmlUrl(status)
           THEN cm' = [cm EXCEPT ![r].pc = "returned", ![r].result = Some(cm[r].branch)]
           ELSE Raise(r, "KeyError")
    /\ UNCHANGED <<outsideCommit, hostVars, extLeft>>

Committer(r) ==
    \/ CmStart(r)
    \/ CmGetRepo(r)
    \/ CmGetRef(r)
    \/ CmCreateBranch(r)
    \/ CmLoop(r)
    \/ CmRead(r)
    \/ CmPut(r)
    \/ CmOpenPr(r)

(***************************************************************************)
(* process_email: its early returns, and one action per stage.             *)
(***************************************************************************)
\* '<' in s and '>' in s: s.split('<')[1].split('>')[0]
BetweenAngles(s) ==
    IF (\E i \in 1..Len(s) : s[i] = "<") /\ (\E i \in 1..Len(s) : s[i] = ">")
    THEN Split(Split(s, "<")[2], ">")[1]
    ELSE s

\* from_email: FromFull's Email (an item FromFull holds the Email of the
\* object), else the From field, the address taken out of "Name <address>"
FromEmail(data) ==
    IF Truthy(Get(data, "FromFull", <<>>)) THEN Get(data, "FromFull", <<>>)
    ELSE BetweenAngles(Get(data, "From", <<>>))

\* data.get('StrippedTextReply') or data.get('TextBody', '')
TextBody(data) ==
    IF Truthy(Get(data, "StrippedTextReply", None)) THEN Get(data, "StrippedTextReply", None)
    ELSE Get(data, "TextBody", <<>>)

\* a test of the body as it came
IsEmptyBody_Untrimmed(text_body) == ~Truthy(text_body)

\* not text_body.strip()
IsEmptyBody(text_body) == ~Truthy(Strip(text_body))

required_vars == {"GITHUB_TOKEN", "MISTRAL_API_KEY", "POSTMARK_SERVER_TOKEN"}

\* missing_vars
MissingVars(e) == {v \in required_vars : ~e[v]}

Finish(result) == pe' = [pe EXCEPT !.pc = "done", !.result = result]

ErrorResult(reason, type) == Body("", "error", "", reason, type, 0)

\* the result of a run that opened the pull request pr_url
SuccessResult(pr_url, files_created) ==
    [Body("", "success", "", "", "", files_created) EXCEPT !.pr_url = pr_url]

\* a notifier that raises whatever the answer to its request
NotifyRaises_Always(status) == TRUE

\* a notifier that lets the failure of its request out
NotifyRaises_OnFailure(status) == status # 200

\* send_email_response and send_error_email catch every exception of theirs
NotifyRaises(status) == FALSE

\* do_POST: the request is answered before the pipeline, or process_email is called
HdPost ==
    /\ hd.pc = "request"
    /\ LET before == BeforePipeline(hd.req)
       IN  IF before.call
           THEN /\ hd' = [hd EXCEPT !.pc = "process_email"]
                /\ pe' = [pe EXCEPT !.pc = "extract", !.data = JsonLoads(hd.req.body).value]
           ELSE /\ hd' = [hd EXCEPT !.pc = "responded", !.resp = before.resp]
                /\ UNCHANGED pe
    /\ UNCHANGED <<env, hostVars, now, extLeft, log, cm, gen>>

\* do_POST: result = process_email(data); send_response(200)
HdRespond ==
    /\ hd.pc = "process_email"
    /\ pe.pc = "done"
    /\ hd' = [hd EXCEPT !.pc = "responded", !.resp = Response(200, pe.result)]
    /\ UNCHANGED <<env, hostVars, now, extLeft, log, cm, gen, pe>>

\* the fields of the message and the two tests on them
PeExtract ==
    /\ pe.pc = "extract"
    /\ LET from_email == FromEmail(pe.data)
           text_body == TextBody(pe.data)
           fields == [pe EXCEPT !.from_email = from_email,
                                !.subject = Get(pe.data, "Subject", <<>>),
                                !.text_body = text_body]
       IN  IF ~Truthy(from_email)
           THEN pe' = [fields EXCEPT !.pc = "done",
                                     !.result = ErrorResult("No sender email found", "")]
           ELSE IF IsEmptyBody(text_body)
           THEN pe' = [fields EXCEPT !.pc = "done",
                                     !.result = Body("", "ignored", "", "Empty email body", "", 0)]
           ELSE pe' = [fields EXCEPT !.pc = "resolve"]
    /\ UNCHANGED <<env, hostVars, now, extLeft, log, cm, gen, hd>>

\* Determine target repository
PeResolve ==
    /\ pe.pc = "resolve"
    /\ pe' = [pe EXCEPT !.pc = "access",
                        !.target_repo = TargetRepo(pe.subject, pe.text_body, pe.from_email, env)]
    /\ UNCHANGED <<env, hostVars, now, extLeft, log, cm, gen, hd>>

PipeEntry(req, status) == Entry(1, req, NoPath, NoRef, None, status, NoHash, {})

\* an access check that every answer passes
validate_repo_access_Always(status) == TRUE

\* return response.status_code == 200; False on an exception (status 0)
validate_repo_access(status) == status = 200

\* validate_repo_access: the request, False on any status but 200 and on an exception
PeAccess ==
    /\ pe.pc = "access"
    /\ \E status \in {200, 404, 0} :
        /\ Record(PipeEntry("validate_repo_access", status))
        /\ pe' = [pe EXCEPT !.pc = IF validate_repo_access(status) THEN "env" ELSE "no_access"]
    /\ UNCHANGED <<env, hostVars, now, extLeft, cm, gen, hd>>

\* send_error_email(from_email, error_msg, subject), which never raises, and the return
PeNoAccess ==
    /\ pe.pc = "no_access"
    /\ \E status \in {200, 422, 0} :
        /\ Record(PipeEntry("send_error_email", status))
        /\ IF NotifyRaises(status)
           THEN pe' = [pe EXCEPT !.pc = "except", !.exc = "Exception"]
           ELSE Finish(ErrorResult("No access to repository", ""))
    /\ UNCHANGED <<env, hostVars, now, extLeft, cm, gen, hd>>

\* Check other required environment variables
PeEnv ==
    /\ pe.pc = "env"
    /\ IF MissingVars(env) # {}
       THEN Finish(ErrorResult("Missing environment variables", ""))
       ELSE pe' = [pe EXCEPT !.pc = "tree"]
    /\ UNCHANGED <<env, hostVars, now, extLeft, log, cm, gen, hd>>

\* the listing of the tree of the branch main: the paths of its files
TreeOfMain ==
    IF HasRef(MainBranch)
    THEN SelectSeq(TreeOrder, LAMBDA path : path \in DOMAIN RefFiles(MainBranch))
    ELSE <<>>

\* get_repo_context: the request for the tree of main, the filter and the cut;
\* "" on any status but 200, the error string on an exception
PeContextTree ==
    /\ pe.pc = "tree"
    /\ \E status \in (IF HasRef(MainBranch) THEN {200} ELSE {404}) \cup {500, 0} :
        /\ Record(PipeEntry("get_tree", status))
        /\ IF status = 200
           THEN LET relevant == relevant_files(TreeOfMain, pe.text_body)
                IN  IF relevant = <<>>
                    THEN pe' = [pe EXCEPT !.pc = "generate", !.repo_context = Some(CTX_NONE)]
                    ELSE pe' = [pe EXCEPT !.pc = "context_file", !.relevant_files = relevant]
           ELSE pe' = [pe EXCEPT !.pc = "generate",
                                 !.repo_context = Some(IF status = 0 THEN CTX_UNABLE ELSE CTX_EMPTY)]
    /\ UNCHANGED <<env, hostVars, now, extLeft, cm, gen, hd>>

\* get_repo_context: the request for one relevant file; any status but 200 and
\* an exception leave the file out, and the loop goes on
PeContextFile ==
    /\ pe.pc = "context_file"
    /\ LET file_path == pe.relevant_files[pe.fetched + 1]
           last == pe.fetched + 1 = Len(pe.relevant_files)
       IN  \E status \in {200, 404, 0} :
            /\ Record(Entry(1, "get_context_file", file_path, NoRef, None, status, NoHash, {}))
            /\ pe' = [pe EXCEPT !.pc = IF last THEN "generate" ELSE "context_file",
                                !.fetched = @ + 1,
                                !.included = IF status = 200 THEN Append(@, file_path) ELSE @,
                                !.repo_context = IF last THEN Some(CTX_FILES) ELSE @]
    /\ UNCHANGED <<env, hostVars, now, extLeft, cm, gen, hd>>

\* generate_code_with_mistral: the completion request; any status but 200, an
\* exception of the request and a reply without choices[0].message.content raise
PeGenerate ==
    /\ pe.pc = "generate"
    /\ \E status \in {200, 500, 0} :
        /\ Record(PipeEntry("completion", status))
        /\ IF status = 200
           THEN \/ \E c \in PipeReplies :
                    /\ gen' = [IdleGen EXCEPT !.pc = "scan", !.content = c]
                    /\ pe' = [pe EXCEPT !.pc = "generating"]
                \/ /\ gen' = [IdleGen EXCEPT !.pc = "raised", !.exc = "KeyError"]
                   /\ pe' = [pe EXCEPT !.pc = "generating"]
           ELSE /\ gen' = [IdleGen EXCEPT !.pc = "raised",
                                          !.exc = IF status = 0 THEN "ConnectionError" ELSE "Exception"]
                /\ pe' = [pe EXCEPT !.pc = "generating"]
    /\ UNCHANGED <<env, hostVars, now, extLeft, cm, hd>>

\* files = generate_code_with_mistral(...); create_github_pr(text_body, files, target_repo)
PeCommit ==
    /\ pe.pc = "generating"
    /\ gen.pc \in {"returned", "raised"}
    /\ IF gen.pc = "raised"
       THEN /\ pe' = [pe EXCEPT !.pc = "except", !.exc = gen.exc]
            /\ UNCHANGED cm
       ELSE /\ pe' = [pe EXCEPT !.pc = "committing", !.files_created = Len(gen.cleaned_files)]
            /\ cm' = [cm EXCEPT ![1] = [IdleRun EXCEPT !.pc = "start", !.files = gen.cleaned_files]]
    /\ UNCHANGED <<env, hostVars, now, extLeft, log, gen, hd>>

\* pr_url, pr_number = create_github_pr(...)
PeCommitted ==
    /\ pe.pc = "committing"
    /\ cm[1].pc \in {"returned", "raised"}
    /\ IF cm[1].pc = "raised"
       THEN pe' = [pe EXCEPT !.pc = "except", !.exc = cm[1].exc]
       ELSE pe' = [pe EXCEPT !.pc = "send_response"]
    /\ UNCHANGED <<env, hostVars, now, extLeft, log, cm, gen, hd>>

\* send_email_response, which never raises, and the return of the success result
PeSendResponse ==
    /\ pe.pc = "send_response"
    /\ \E status \in {200, 422, 0} :
        /\ Record(PipeEntry("send_email_response", status))
        /\ IF NotifyRaises(status)
           THEN pe' = [pe EXCEPT !.pc = "except", !.exc = "Exception"]
           ELSE Finish(SuccessResult(cm[1].result, pe.files_created))
    /\ UNCHANGED <<env, hostVars, now, extLeft, cm, gen, hd>>

\* except Exception: send_error_email when from_email is there, and the error result
PeExcept ==
    /\ pe.pc = "except"
    /\ IF Truthy(pe.from_email)
       THEN \E status \in {200, 422, 0} : Record(PipeEntry("send_error_email", status))
       ELSE UNCHANGED log
    /\ Finish(ErrorResult("str(e)", pe.exc))
    /\ UNCHANGED <<env, hostVars, now, extLeft, cm, gen, hd>>

Pipeline ==
    \/ PeExtract
    \/ PeResolve
    \/ PeAccess
    \/ PeNoAccess
    \/ PeEnv
    \/ PeContextTree
    \/ PeContextFile
    \/ PeGenerate
    \/ PeCommit
    \/ PeCommitted
    \/ PeSendResponse
    \/ PeExcept

Handler ==
    \/ HdPost
    \/ HdRespond

(***************************************************************************)
(* SpecCommit: one call of create_github_pr on any FileSet, against a      *)
(* repository that holds any subset of its paths, with the external actor. *)
(***************************************************************************)
Envs == [GITHUB_TOKEN : BOOLEAN, MISTRAL_API_KEY : BOOLEAN, POSTMARK_SERVER_TOKEN : BOOLEAN,
         GITHUB_REPO : {None, OTHER_REPO}]

AllSet == [GITHUB_TOKEN |-> TRUE, MISTRAL_API_KEY |-> TRUE, POSTMARK_SERVER_TOKEN |-> TRUE,
           GITHUB_REPO |-> None]

InitHost(paths) ==
    /\ defaultName \in {MainBranch, TrunkBranch}
    /\ \E existing \in SUBSET paths : commits = <<[p \in existing |-> 1]>>
    /\ branches = <<>>

PathsOf(fs) == {fs[i].path : i \in 1..Len(fs)}

InitCommit ==
    /\ env \in {e \in Envs : e.MISTRAL_API_KEY /\ e.POSTMARK_SERVER_TOKEN /\ e.GITHUB_REPO = None}
    /\ \E fs \in FileSets :
        /\ cm = [r \in RunIds |-> IF r = 1 THEN [IdleRun EXCEPT !.pc = "start", !.files = fs]
                                           ELSE IdleRun]
        /\ InitHost(PathsOf(fs))
    /\ now = 1
    /\ extLeft = MaxExt
    /\ log = <<>>
    /\ gen = IdleGen
    /\ pe = IdlePe
    /\ hd = IdleHd

NextCommit ==
    \/ Committer(1)
    \/ ExtModifyDefault
    \/ ExtModifyBranch

SpecCommit == InitCommit /\ [][NextCommit]_vars

(***************************************************************************)
(* SpecParse: generate_code_with_mistral from the parsing of the reply on, *)
(* for every reply of at most MaxLines lines drawn from LinePool.          *)
(***************************************************************************)
InitParse ==
    /\ \E c \in ParseReplies : gen = [IdleGen EXCEPT !.pc = "scan", !.content = c]
    /\ env = AllSet
    /\ defaultName = MainBranch
    /\ commits = <<<<>>>>
    /\ branches = <<>>
    /\ now = 1
    /\ extLeft = 0
    /\ log = <<>>
    /\ cm = [r \in RunIds |-> IdleRun]
    /\ pe = IdlePe
    /\ hd = IdleHd

NextParse == Generator

SpecParse == InitParse /\ [][NextParse]_vars

(***************************************************************************)
(* SpecRepo: the resolution of the repository, for every subject and body  *)
(* made of the tokens, every sender and both settings of GITHUB_REPO.      *)
(***************************************************************************)
InitRepo ==
    /\ \E st \in SubjectTokens, bt \in BodyTokens, sender \in Senders :
        pe = [IdlePe EXCEPT !.pc = "resolve", !.subject = TextOf(st), !.text_body = TextOf(bt),
                            !.from_email = sender.address]
    /\ env \in {e \in Envs : MissingVars(e) = {}}
    /\ defaultName = MainBranch
    /\ commits = <<<<>>>>
    /\ branches = <<>>
    /\ now = 1
    /\ extLeft = 0
    /\ log = <<>>
    /\ cm = [r \in RunIds |-> IdleRun]
    /\ gen = IdleGen
    /\ hd = IdleHd

NextRepo == PeResolve

SpecRepo == InitRepo /\ [][NextRepo]_vars

(***************************************************************************)
(* SpecTwoRuns: two calls of create_github_pr on one repository, each with *)
(* the one file a.py, their requests interleaved, and the clock both read  *)
(* for their branch name.                                                  *)
(***************************************************************************)
\* the clock moves on by a second; only a run at its start reads it
Tick ==
    /\ now < MaxClock
    /\ \E r \in RunIds : cm[r].pc = "start"
    /\ now' = now + 1
    /\ UNCHANGED <<env, hostVars, extLeft, log, cm, gen, pe, hd>>

InitTwoRuns ==
    /\ env = AllSet
    /\ cm = [r \in RunIds |->
                [IdleRun EXCEPT !.pc = "start",
                                !.files = <<[path |-> P_a, content |-> SomeContent]>>]]
    /\ InitHost({P_a})
    /\ now = 1
    /\ extLeft = 0
    /\ log = <<>>
    /\ gen = IdleGen
    /\ pe = IdlePe
    /\ hd = IdleHd

NextTwoRuns ==
    \/ \E r \in RunIds : Committer(r)
    \/ Tick

SpecTwoRuns == InitTwoRuns /\ [][NextTwoRuns]_vars

(***************************************************************************)
(* SpecContext: get_repo_context and the completion request that follows   *)
(* it, for a repository whose branch main holds the first entries of       *)
(* TreeOrder, at most MaxTree of them.                                     *)
(***************************************************************************)
InitContext ==
    /\ env = AllSet
    /\ defaultName \in {MainBranch, TrunkBranch}
    /\ \E k \in 0..MaxTree : commits = <<[p \in {TreeOrder[n] : n \in 1..k} |-> 1]>>
    /\ branches = <<>>
    /\ \E instruction \in CtxInstructions :
        pe = [IdlePe EXCEPT !.pc = "tree", !.text_body = instruction]
    /\ now = 1
    /\ extLeft = 0
    /\ log = <<>>
    /\ cm = [r \in RunIds |-> IdleRun]
    /\ gen = IdleGen
    /\ hd = IdleHd

NextContext ==
    \/ PeContextTree
    \/ PeContextFile
    \/ PeGenerate

SpecContext == InitContext /\ [][NextContext]_vars

(***************************************************************************)
(* Spec: a POST request to the webhook, or a call of create_github_pr on   *)
(* its own, with the hosting service and the external actor.               *)
(***************************************************************************)
InitWebhook ==
    /\ env \in {e \in Envs : e.GITHUB_REPO = None /\ Cardinality(MissingVars(e)) <= 1}
    /\ \E req \in Requests : hd = [IdleHd EXCEPT !.pc = "request", !.req = req]
    /\ InitHost({DEFAULT_NAME})
    /\ now = 1
    /\ extLeft = MaxExt
    /\ log = <<>>
    /\ cm = [r \in RunIds |-> IdleRun]
    /\ gen = IdleGen
    /\ pe = IdlePe

Init == InitWebhook \/ InitCommit

Next ==
    \/ Handler
    \/ Pipeline
    \/ Generator
    \/ Committer(1)
    \/ ExtModifyDefault
    \/ ExtModifyBranch

Spec == Init /\ [][Next]_vars

(***************************************************************************)
(* Properties of the committer (SpecCommit).                               *)
(***************************************************************************)
\* the log positions of run r's requests of one kind for one path
Reqs(r, req, p) ==
    {i \in 1..Len(log) : log[i].run = r /\ log[i].req = req /\ log[i].path = p}

PutIdx == {j \in 1..Len(log) : log[j].req = "put_file"}

\* the existence read a write follows: the run's last read of that path before it
HasReadOf(j) ==
    \E i \in 1..(j - 1) : /\ log[i].run = log[j].run
                          /\ log[i].req = "get_file"
                          /\ log[i].path = log[j].path

ReadOf(j) ==
    CHOOSE i \in 1..(j - 1) :
        /\ log[i].run = log[j].run /\ log[i].req = "get_file" /\ log[i].path = log[j].path
        /\ \A k \in (i + 1)..(j - 1) :
            ~(log[k].run = log[j].run /\ log[k].req = "get_file" /\ log[k].path = log[j].path)

Accepted(j) == log[j].status \in {200, 201}

\* the whole path, lowercased, is license or license.md and the set has several files
WholePathLicense(path, files) ==
    /\ Len(files) > 1
    /\ \/ Lower(path) = <<"l","i","c","e","n","s","e">>
       \/ Lower(path) = <<"l","i","c","e","n","s","e",".","m","d">>

\* C1 as stated: a run of the committer that returns a pull-request result has
\* issued exactly one write for every path of its FileSet.
C1_OneWritePerPath ==
    cm[1].pc = "returned" =>
        \A i \in 1..Len(cm[1].files) :
            Cardinality(Reqs(1, "put_file", cm[1].files[i].path)) = 1

\* C1 (amended): a run of the committer that returns a pull-request result has
\* issued exactly one write for every path of its FileSet that the license skip
\* does not apply to, no write for a path it applies to (the whole lowercased
\* path is license or license.md and the set has several files), and no other write.
C1_OneWritePerUnskippedPath ==
    cm[1].pc = "returned" =>
        /\ \A i \in 1..Len(cm[1].files) :
            Cardinality(Reqs(1, "put_file", cm[1].files[i].path)) =
                IF WholePathLicense(cm[1].files[i].path, cm[1].files) THEN 0 ELSE 1
        /\ \A j \in PutIdx : log[j].path \in PathsOf(cm[1].files)

\* a returned run whose FileSet held a skipped license path and a written path
C1_Witness ==
    /\ cm[1].pc = "returned"
    /\ \E i, j \in 1..Len(cm[1].files) :
        /\ WholePathLicense(cm[1].files[i].path, cm[1].files)
        /\ Reqs(1, "put_file", cm[1].files[i].path) = {}
        /\ Reqs(1, "put_file", cm[1].files[j].path) # {}

\* C2: every write follows an existence read of the same path against the
\* default branch, carries a hash exactly when that read answered 200, and the
\* hash it carries is the one that read returned.
C2_HashIffReadOk ==
    \A j \in PutIdx :
        /\ HasReadOf(j)
        /\ LET i == ReadOf(j)
           IN  /\ log[i].ref = defaultName
               /\ (log[j].sha # None) <=> (log[i].status = 200)
               /\ log[j].sha = log[i].sha

\* one run wrote a file with the hash its read returned and a file without a hash
C2_Witness ==
    \E j, k \in PutIdx :
        /\ log[j].sha # None /\ log[ReadOf(j)].status = 200
        /\ log[k].sha = None /\ log[ReadOf(k)].status # 200

\* C3 as stated: a path whose lowercase final segment is license or license.md
\* is neither read nor written when the FileSet has two or more files, and is
\* written when it is the only file of a run that returns.
C3_LicenseNeverWritten ==
    \A i \in 1..Len(cm[1].files) :
        LET path == cm[1].files[i].path
        IN  Lower(LastSegment(path)) \in {STR_license, STR_license_md} =>
              /\ Len(cm[1].files) >= 2 =>
                    Reqs(1, "get_file", path) \cup Reqs(1, "put_file", path) = {}
              /\ (Len(cm[1].files) = 1 /\ cm[1].pc = "returned") =>
                    Reqs(1, "put_file", path) # {}

\* C5 as stated: when the external actor modifies a pre-existing file between
\* its existence read and its write, the write is rejected; and no accepted
\* write overwrites a version whose hash was not read.
C5_ExternalChangeRejected ==
    \A j \in PutIdx :
        HasReadOf(j) =>
            LET i == ReadOf(j)
            IN  /\ (log[i].status = 200 /\ log[j].ext # {})
                        => ~Accepted(j)
                /\ (Accepted(j) /\ log[j].prior # NoHash)
                        => log[i].sha = Some(log[j].prior)

\* C5 (amended): a write that finds on the new branch a version of the file whose
\* hash is not the hash read for that path is rejected and the commit fails with
\* the file-commit error, so no accepted write overwrites a version whose hash was
\* not read; this covers a change made on the new branch between the read and the
\* write, while a change made on the default branch in that window is not detected.
C5_UnreadVersionNeverOverwritten ==
    \A j \in PutIdx :
        /\ HasReadOf(j)
        /\ log[j].ref = cm[log[j].run].branch
        /\ (log[j].prior # NoHash /\ log[ReadOf(j)].sha # Some(log[j].prior)) =>
              /\ ~Accepted(j)
              /\ cm[log[j].run].pc = "raised"
              /\ cm[log[j].run].exc = "RuntimeError"

\* the external actor changed a pre-existing file on the new branch between the
\* read and the write, and the write was rejected for the hash
C5_Witness ==
    \E j \in PutIdx :
        /\ log[ReadOf(j)].status = 200
        /\ log[j].ref \in log[j].ext
        /\ log[j].status = 409
        /\ cm[1].pc = "raised"

(***************************************************************************)
(* Properties of the parser (SpecParse).                                   *)
(***************************************************************************)
GenDone == gen.pc \in {"returned", "raised"}

\* cleaned_content of a file_content
Cleaned(c) == StripTrailingFence(StripLeadingFence(c))

\* C6: the generator, given a well-formed reply of N >= 1 blocks with distinct
\* paths, returns exactly N entries, in the order of the blocks, each path
\* mapped to the lines of its own block joined by newlines.
C6_BlocksYieldEntries ==
    \A bs \in BlockSeqs :
        (bs # <<>> /\ GenDone /\ gen.content = Render(bs)) =>
            /\ gen.pc = "returned"
            /\ gen.cleaned_files =
                   [i \in 1..Len(bs) |-> [path |-> bs[i].path, content |-> Join(bs[i].body, NL)]]

\* C7 as stated: the fallback chain runs only when the scan stored no file; the
\* file it yields holds the first fenced block when the reply has one, and
\* otherwise has the default name and holds the whole raw reply.
C7_FallbackHoldsRawText ==
    /\ gen.pc \in {"clean", "returned", "raised"} =>
           (gen.re_bound <=> ScanReply(gen.content) = <<>>)
    /\ (gen.pc = "returned" /\ ScanReply(gen.content) = <<>>) =>
           /\ Len(gen.cleaned_files) = 1
           /\ IF HasCodeBlock(gen.content)
              THEN gen.cleaned_files[1].content = FirstCodeBlock(gen.content)
              ELSE gen.cleaned_files[1] = [path |-> DEFAULT_NAME, content |-> gen.content]

\* C7, amended: the fallback chain runs only when the scan stored no file; the
\* file it yields holds the first fenced block when the reply has one, and
\* otherwise has the default name and holds the raw reply, in both cases with a
\* leading fence line and a trailing fence taken off by the cleaning loop.
C7_FallbackHoldsCleanedText ==
    /\ gen.pc \in {"clean", "returned", "raised"} =>
           (gen.re_bound <=> ScanReply(gen.content) = <<>>)
    /\ (gen.pc = "returned" /\ ScanReply(gen.content) = <<>>) =>
           /\ Len(gen.cleaned_files) = 1
           /\ IF HasCodeBlock(gen.content)
              THEN gen.cleaned_files[1].content = Cleaned(FirstCodeBlock(gen.content))
              ELSE gen.cleaned_files[1] =
                       [path |-> DEFAULT_NAME, content |-> Cleaned(gen.content)]

\* a reply with a fenced block and no delimiter block has been returned as one file
C7_Witness ==
    /\ gen.pc = "returned"
    /\ gen.re_bound
    /\ HasCodeBlock(gen.content)
    /\ gen.cleaned_files = <<[path |-> DEFAULT_NAME, content |-> L_code]>>

(***************************************************************************)
(* Properties of the committer's abort (Spec).                             *)
(***************************************************************************)
CommitterRequests == {"get_repo", "get_ref", "create_branch", "get_file", "put_file", "create_pr"}

\* the write at place j of the log was refused
FailedPut(j) == log[j].req = "put_file" /\ log[j].status \notin {200, 201}

\* C4: after a file write that returns a status other than 200 and 201, the run
\* issues no request to the hosting service any more (no read or write of a
\* later path, no pull request, no deletion), create_github_pr has raised, and
\* a pipeline that called it ends with status "error", answered with 200.
C4_WriteFailureAborts ==
    \A j \in 1..Len(log) :
        FailedPut(j) =>
            /\ \A k \in (j + 1)..Len(log) :
                   log[k].run = log[j].run => log[k].req \notin CommitterRequests
            /\ \A k \in (j + 1)..Len(log) : log[k].req = "send_error_email"
            /\ cm[log[j].run].pc = "raised"
            /\ pe.pc \in {"idle", "committing", "except", "done"}
            /\ pe.pc = "done" => pe.result.status = "error"
            /\ hd.pc = "responded" => hd.resp = Response(200, pe.result)

\* the write of the first of two paths was refused, and the run has ended
C4_Witness ==
    /\ Len(log) > 0
    /\ FailedPut(Len(log))
    /\ Len(cm[1].files) = 2
    /\ cm[1].idx = 1
    /\ cm[1].pc = "raised"

\* a pipeline whose write was refused has answered
C4_PipelineWitness ==
    /\ hd.pc = "responded"
    /\ pe.result.status = "error"
    /\ \E j \in 1..Len(log) : FailedPut(j)

(***************************************************************************)
(* Properties of the repository resolution (SpecRepo).                     *)
(***************************************************************************)
\* the tokens of ts that are markers
MarkersOf(ts) == {i \in 1..Len(ts) : ts[i].marker > 0}

\* the marker that wins: the earliest pattern of the order, and of its
\* occurrences the leftmost
WinnerOf(ts) ==
    CHOOSE i \in MarkersOf(ts) :
        \A j \in MarkersOf(ts) :
            ts[i].marker < ts[j].marker \/ (ts[i].marker = ts[j].marker /\ i <= j)

\* the repository the resolution order gives
Resolved(ts, sender, e) ==
    IF MarkersOf(ts) # {} THEN ts[WinnerOf(ts)].repo
    ELSE IF sender.known \in {"sender", "domain"} THEN MAILFORGE_TEST_TARGET
    ELSE IF e.GITHUB_REPO = None THEN MAILFORGE_TEST_TARGET
    ELSE e.GITHUB_REPO

\* every subject, body, sender and setting of GITHUB_REPO, with the repository
\* the resolution order gives
ResolutionTable ==
    {<<TextOf(st), TextOf(bt), sender.address, e.GITHUB_REPO, Resolved(st \o bt, sender, e)>> :
        st \in SubjectTokens, bt \in BodyTokens, sender \in Senders,
        e \in {f \in Envs : MissingVars(f) = {}}}

\* C8: the repository is the one named by the marker of the earliest pattern in
\* the order repo:, @, github.com/, target:, project: that occurs in subject and
\* body, for every sender; without a marker it is the sender table's for a
\* sender of the table, else the domain table's for a sender of the domain,
\* else the configured default.
C8_FirstMatchWins ==
    pe.pc = "access" =>
        <<pe.subject, pe.text_body, pe.from_email, env.GITHUB_REPO, pe.target_repo>>
            \in ResolutionTable

\* "repo: a/r" after an @ marker, from a sender of the sender table, gave a/r
C8_Witness ==
    /\ pe.pc = "access"
    /\ pe.text_body = <<"@","a","/","t"," ","r","e","p","o",":"," ","a","/","r">>
    /\ pe.from_email = <<"d","e","v","@","h","i","d","r","o","k","u","l","t","u","r",".","c","o","m">>
    /\ pe.target_repo = <<"a","/","r">>

(***************************************************************************)
(* Properties of the handler (Spec).                                       *)
(***************************************************************************)
\* the request reaches the test filter: the path is the webhook's, the length
\* is a number other than 0, the body is JSON
Decoded ==
    /\ hd.req.path = WEBHOOK_PATH
    /\ hd.req.content_length \in {h \in ContentLengths : h # None /\ h \notin {<<"0">>, <<"x">>}}
    /\ hd.req.body.utf8
    /\ hd.req.body.json

\* the fields of the payload; a number has none
FieldsOf(data) == {data.items[i][1] : i \in 1..Len(data.items)}

\* the payload is empty, or has neither From nor FromFull, or lacks one of
\* From, Subject, MessageID
TestPayload(data) ==
    \/ FieldsOf(data) = {}
    \/ FieldsOf(data) \cap {"From", "FromFull"} = {}
    \/ ~({"From", "Subject", "MessageID"} \subseteq FieldsOf(data))

NoStageRan ==
    /\ pe = IdlePe
    /\ gen = IdleGen
    /\ cm = [r \in RunIds |-> IdleRun]
    /\ log = <<>>

\* C9: a payload is answered with the fixed acknowledgement exactly when it is
\* a test payload, and for a test payload no stage of the pipeline runs.
C9_TestPayloadsAcknowledged ==
    Decoded =>
        /\ TestPayload(hd.req.body.value) =>
               /\ NoStageRan
               /\ hd.pc = "responded" => hd.resp = Response(200, TestAck)
        /\ (~TestPayload(hd.req.body.value) /\ hd.pc = "responded") => hd.resp.body # TestAck

\* the status the request is to get
StatusOf(req) ==
    IF req.path # WEBHOOK_PATH THEN 404
    ELSE IF req.content_length = <<"x">> THEN 500
    ELSE IF req.content_length \in {None, <<"0">>} THEN 400
    ELSE IF ~req.body.utf8 \/ ~req.body.json THEN 400
    ELSE IF req.body.value.type # "dict" THEN 500
    ELSE 200

\* C10: the status is 404 for another path, 400 for an empty body and for a
\* body that is not valid JSON, 500 when an exception leaves the handler, and
\* 200 with the pipeline's result otherwise, whatever failed in the pipeline.
C10_StatusMapping ==
    hd.pc = "responded" =>
        /\ hd.resp.code = StatusOf(hd.req)
        /\ hd.resp.code = 200 =>
               \/ hd.resp.body = TestAck
               \/ pe.pc = "done" /\ hd.resp.body = pe.result
                  /\ pe.result.status \in {"success", "ignored", "error"}

(***************************************************************************)
(* Properties of the pipeline's early returns and notifications (Spec).    *)
(***************************************************************************)
\* process_email was called on the request's payload
Called == hd.pc \in {"process_email", "responded"} /\ pe.pc # "idle"

\* the body of the message (the stripped reply, else the text body) has
\* nothing but whitespace
BlankBody(data) ==
    \A i \in 1..Len(TextBody(data)) : TextBody(data)[i] \in {" ", "\t", "\n", "\r"}

NoExternalCall ==
    /\ log = <<>>
    /\ gen = IdleGen
    /\ cm = [r \in RunIds |-> IdleRun]

Ignored == Body("", "ignored", "", "Empty email body", "", 0)

\* C11 as stated: a message whose body is empty after trimming is answered
\* with status "ignored", reason "Empty email body", and no external call is made.
C11_EmptyBodyIgnored ==
    (Called /\ BlankBody(pe.data)) =>
        /\ NoExternalCall
        /\ pe.pc \in {"extract", "done"}
        /\ pe.pc = "done" => pe.result = Ignored

\* C11, amended: the same for a message that has a sender address; a message
\* without one is answered with status "error", reason "No sender email
\* found", whatever its body; in both cases no external call is made.
C11_EmptyBodyIgnoredWithSender ==
    Called =>
        /\ (BlankBody(pe.data) \/ FromEmail(pe.data) = <<>>) =>
               /\ NoExternalCall
               /\ pe.pc \in {"extract", "done"}
        /\ (pe.pc = "done" /\ FromEmail(pe.data) = <<>>) =>
               pe.result = ErrorResult("No sender email found", "")
        /\ (pe.pc = "done" /\ FromEmail(pe.data) # <<>> /\ BlankBody(pe.data)) =>
               pe.result = Ignored

\* a message with a sender and a body of whitespace has been answered
C11_Witness ==
    /\ hd.pc = "responded"
    /\ FromEmail(pe.data) # <<>>
    /\ TextBody(pe.data) # <<>>
    /\ BlankBody(pe.data)
    /\ hd.resp = Response(200, Ignored)

\* the request at place j of the log is a notification e-mail
IsNotification(j) == log[j].req \in {"send_email_response", "send_error_email"}

\* C12: whatever the answer to the request of a notification e-mail, the run
\* returns right after it, and with the result the rest of the run decides:
\* status "success" with the pull request after the success e-mail, the error
\* body after a failure e-mail.
C12_NotificationNeverChangesOutcome ==
    \A j \in 1..Len(log) :
        IsNotification(j) =>
            /\ j = Len(log)
            /\ pe.pc = "done"
            /\ log[j].req = "send_email_response" =>
                   /\ cm[1].pc = "returned"
                   /\ cm[1].result # None
                   /\ pe.result = SuccessResult(cm[1].result, Len(cm[1].files))
            /\ log[j].req = "send_error_email" =>
                   pe.result = IF pe.exc = ""
                               THEN ErrorResult("No access to repository", "")
                               ELSE ErrorResult("str(e)", pe.exc)
            /\ hd.pc = "responded" => hd.resp = Response(200, pe.result)

\* the success e-mail could not be sent, and the run has answered with success
C12_Witness ==
    /\ hd.pc = "responded"
    /\ Len(log) > 0
    /\ log[Len(log)].req = "send_email_response"
    /\ log[Len(log)].status # 200
    /\ hd.resp.body.status = "success"
    /\ hd.resp.body.pr_url # None

\* the failure e-mail could not be sent, and the run has answered with the error
C12_ErrorWitness ==
    /\ hd.pc = "responded"
    /\ Len(log) > 0
    /\ log[Len(log)].req = "send_error_email"
    /\ log[Len(log)].status # 200
    /\ hd.resp.body.status = "error"

\* the access check at place j of the log was not answered with 200
AccessDenied(j) == log[j].req = "validate_repo_access" /\ log[j].status # 200

NoAccessResult == ErrorResult("No access to repository", "")

\* C13: after an access check that does not confirm access, the only request
\* of the run is the failure notification, and the run returns the access
\* failure: no context, completion, branch, file or pull-request request is
\* made, also when configuration values are missing.
C13_NoAccessStops ==
    \A j \in 1..Len(log) :
        AccessDenied(j) =>
            /\ j = 1
            /\ Len(log) <= 2
            /\ Len(log) = 2 => log[2].req = "send_error_email"
            /\ gen = IdleGen
            /\ cm = [r \in RunIds |-> IdleRun]
            /\ pe.pc \in {"no_access", "done"}
            /\ pe.pc = "done" => (Len(log) = 2 /\ pe.result = NoAccessResult)
            /\ hd.pc = "responded" => hd.resp = Response(200, NoAccessResult)

\* a run without access and with a configuration value missing has reported
\* the access failure
C13_Witness ==
    /\ hd.pc = "responded"
    /\ MissingVars(env) # {}
    /\ Len(log) = 2
    /\ AccessDenied(1)
    /\ log[2].req = "send_error_email"
    /\ hd.resp.body = NoAccessResult

(***************************************************************************)
(* Properties of the order of the requests (Spec).                         *)
(***************************************************************************)
\* the places of the log with a request req of run r
Places(r, req) == {j \in 1..Len(log) : log[j].run = r /\ log[j].req = req}

\* the request at place j failed: the completion call, the branch creation, a
\* file write or the pull-request creation
StepFailed(j) ==
    \/ log[j].req = "completion" /\ log[j].status # 200
    \/ log[j].req = "create_branch" /\ log[j].status # 201
    \/ log[j].req = "put_file" /\ log[j].status \notin {200, 201}
    \/ log[j].req = "create_pr" /\ log[j].status # 201

\* C14: in one run the completion call, the branch creation, the write of each
\* path and the pull-request creation are each issued at most once, and after
\* one of them has failed the run issues nothing but the failure notification.
C14_NoRetryAndAbort ==
    /\ \A r \in RunIds :
        /\ Cardinality(Places(r, "completion")) <= 1
        /\ Cardinality(Places(r, "create_branch")) <= 1
        /\ Cardinality(Places(r, "create_pr")) <= 1
        /\ \A i, j \in Places(r, "put_file") : log[i].path = log[j].path => i = j
    /\ \A j \in 1..Len(log) :
        StepFailed(j) =>
            /\ \A k \in (j + 1)..Len(log) : k = j + 1 /\ log[k].req = "send_error_email"
            /\ pe.pc \in {"idle", "generating", "committing", "except", "done"}
            /\ pe.pc # "idle" => gen.pc \in {"raised", "returned"}
            /\ pe.pc = "done" => pe.result.status = "error"

\* the branch creation was rejected, the failure notification sent, the run over
C14_Witness ==
    /\ hd.pc = "responded"
    /\ Len(log) > 1
    /\ log[Len(log) - 1].req = "create_branch"
    /\ StepFailed(Len(log) - 1)
    /\ log[Len(log)].req = "send_error_email"
    /\ hd.resp.body.status = "error"

(***************************************************************************)
(* Properties of the cleaning loop and of the scan loop (SpecParse).       *)
(***************************************************************************)
\* the paths of a file set, in insertion order
PathSeq(files) == [i \in 1..Len(files) |-> files[i].path]

\* the files of a file set that the filter of unwanted files keeps
Kept(files) == SelectSeq(files, LAMBDA f : ~IsUnwanted(f.path, files))

\* C15: the generator, once the files are parsed, returns them without the
\* files whose final path segment is, in any case, readme.md, license,
\* license.md or .gitignore, unless such a file is the only one; every other
\* parsed file is returned.
C15_UnwantedDropped ==
    (GenDone /\ Len(gen.files) > 1) =>
        /\ gen.pc = "returned"
        /\ PathSeq(gen.cleaned_files) = PathSeq(Kept(gen.files))

\* a line that ends a block: the next ---FILE: line or the ---END FILE--- line
IsMarker(line) == IsFileLine(line) \/ line = END_LINE

\* line j opens a block: a ---FILE: line with a path
Opens(lines, j) == IsFileLine(lines[j]) /\ Truthy(PathOfFileLine(lines[j]))

\* the block opened at line k is still open when the reply ends
OpenAtEnd(lines, k) ==
    Opens(lines, k) /\ \A m \in (k + 1)..Len(lines) : ~IsMarker(lines[m])

\* the lines of the block opened at line j and closed by a later marker
BodyOf(lines, j) ==
    LET e == CHOOSE e \in (j + 1)..Len(lines) :
                 IsMarker(lines[e]) /\ \A m \in (j + 1)..(e - 1) : ~IsMarker(lines[m])
    IN  SubSeq(lines, j + 1, e - 1)

\* every block closed before line k is stored: its path is in files, with the
\* lines of the last closed block of that path
ClosedStored(files, lines, k) ==
    \A j \in 1..(k - 1) :
        (Opens(lines, j) /\ \A m \in (j + 1)..(k - 1) :
                               Opens(lines, m) => PathOfFileLine(lines[m]) # PathOfFileLine(lines[j])) =>
            \E i \in 1..Len(files) :
                /\ files[i].path = PathOfFileLine(lines[j])
                /\ files[i].content = Join(BodyOf(lines, j), NL)

\* C16 as stated: after the loop over the lines, the path of a block still
\* open when the reply ends is not in files, and every block closed before it
\* is stored.
C16_OpenBlockPathAbsent ==
    gen.pc = "fallback" =>
        LET lines == Split(gen.content, NL)
        IN  \A k \in 1..Len(lines) :
                OpenAtEnd(lines, k) =>
                    /\ PathOfFileLine(lines[k]) \notin PathsOf(gen.files)
                    /\ ClosedStored(gen.files, lines, k)

\* C16, amended: after the loop over the lines, a block still open when the
\* reply ends has stored nothing: its path is in files only when a block closed
\* before it has the same path, and then with that block's lines; every block
\* closed before it is stored.
C16_OpenBlockNotStored ==
    gen.pc = "fallback" =>
        LET lines == Split(gen.content, NL)
        IN  \A k \in 1..Len(lines) :
                OpenAtEnd(lines, k) =>
                    /\ PathOfFileLine(lines[k]) \in PathsOf(gen.files) =>
                           \E j \in 1..(k - 1) :
                               Opens(lines, j) /\ PathOfFileLine(lines[j]) = PathOfFileLine(lines[k])
                    /\ ClosedStored(gen.files, lines, k)

\* the loop has read a reply with a closed block followed by an open block of
\* another path, and holds the closed block only
C16_Witness ==
    /\ gen.pc = "fallback"
    /\ LET lines == Split(gen.content, NL)
       IN  \E k \in 2..Len(lines) :
               /\ OpenAtEnd(lines, k)
               /\ k < Len(lines)
               /\ \E j \in 1..(k - 1) : Opens(lines, j)
               /\ PathOfFileLine(lines[k]) \notin PathsOf(gen.files)
               /\ Len(gen.files) = 1

(***************************************************************************)
(* Properties of the pull-request creation and of the order of the         *)
(* committer's requests (Spec).                                            *)
(***************************************************************************)
\* C17: when the hosting API rejects the creation of the pull request the
\* committer fails: the pipeline sends no success notification, attempts the
\* failure notification and returns the status "error".
C17_RejectedPrFails ==
    \A j \in 1..Len(log) :
        (log[j].req = "create_pr" /\ log[j].status # 201) =>
            /\ cm[log[j].run].pc = "raised"
            /\ Places(log[j].run, "send_email_response") = {}
            /\ pe.pc \in {"idle", "committing", "except", "done"}
            /\ pe.pc = "done" =>
                   /\ pe.result.status = "error"
                   /\ \E k \in (j + 1)..Len(log) : log[k].req = "send_error_email"

\* a pipeline run whose pull-request creation was rejected has answered
C17_Witness ==
    /\ hd.pc = "responded"
    /\ Len(log) > 1
    /\ log[Len(log) - 1].req = "create_pr"
    /\ log[Len(log) - 1].status = 422
    /\ Places(1, "put_file") # {}
    /\ log[Len(log)].req = "send_error_email"
    /\ hd.resp.body.status = "error"

\* the place of path p in a file set
IndexOf(files, p) == CHOOSE n \in 1..Len(files) : files[n].path = p

\* the places of the log before j where run r's write of path p was accepted
WrittenBefore(r, p, j) == {i \in Reqs(r, "put_file", p) : i < j /\ Accepted(i)}

\* C18: a run reads and writes files, and opens the pull request, only after
\* its branch creation was accepted; the read of a path targets the default
\* branch and comes before the write of that path, which targets the new
\* branch; the paths are taken in insertion order, one after the accepted write
\* of the one before; the pull request is opened only after the write of every
\* path that is not skipped was accepted.
C18_RequestOrder ==
    \A r \in RunIds :
        LET files == cm[r].files
            mine(req) == Places(r, req)
        IN  /\ \A j \in mine("get_file") \cup mine("put_file") \cup mine("create_pr") :
                   \E i \in mine("create_branch") : i < j /\ log[i].status = 201
            /\ (\E i \in mine("create_branch") : log[i].status # 201) =>
                   mine("get_file") \cup mine("put_file") \cup mine("create_pr") = {}
            /\ \A j \in mine("get_file") :
                   /\ log[j].ref = defaultName
                   /\ log[j].path \in PathsOf(files)
                   /\ \A n \in 1..(IndexOf(files, log[j].path) - 1) :
                          ~WholePathLicense(files[n].path, files) =>
                              WrittenBefore(r, files[n].path, j) # {}
            /\ \A j \in mine("put_file") :
                   /\ log[j].ref = cm[r].branch
                   /\ log[j].ref # defaultName
                   /\ Reqs(r, "get_file", log[j].path) = {j - 1}
            /\ \A i, j \in mine("get_file") :
                   i < j => IndexOf(files, log[i].path) < IndexOf(files, log[j].path)
            /\ \A j \in mine("create_pr") :
                   \A n \in 1..Len(files) :
                       ~WholePathLicense(files[n].path, files) =>
                           WrittenBefore(r, files[n].path, j) # {}

\* a run has read and written two paths in turn and has opened the pull request
C18_Witness ==
    /\ cm[1].pc = "returned"
    /\ Len(cm[1].files) = 2
    /\ Cardinality(Places(1, "put_file")) = 2
    /\ Places(1, "create_pr") # {}

(***************************************************************************)
(* Properties of get_repo_context (SpecContext).                           *)
(***************************************************************************)
\* the requests for the content of a file that get_repo_context has issued
ContextFetches == SelectSeq(log, LAMBDA e : e.req = "get_context_file")

\* get_repo_context has returned
ContextReturned == pe.pc \in {"generate", "generating"}

\* C19: get_repo_context never raises and is bounded. It asks for the content
\* of at most 8 paths; a fetch that fails or raises leaves out that file only,
\* and the files selected after it are still asked for; when the request for
\* the tree fails it returns a string, and the completion request follows.
C19_ContextNeverFails ==
    /\ Len(ContextFetches) <= CONTEXT_LIMIT
    /\ pe.exc = ""
    /\ \A j \in 1..(Len(log) - 1) :
           log[j].req \in {"get_tree", "get_context_file"} =>
               log[j + 1].req \in {"get_context_file", "completion"}
    /\ pe.pc = "generating" => Places(1, "completion") # {}
    /\ ContextReturned =>
        /\ pe.repo_context \in {Some(CTX_EMPTY), Some(CTX_NONE), Some(CTX_UNABLE), Some(CTX_FILES)}
        /\ [i \in 1..Len(ContextFetches) |-> ContextFetches[i].path] = pe.relevant_files
        /\ pe.included =
               [i \in 1..Len(SelectSeq(ContextFetches, LAMBDA e : e.status = 200)) |->
                   SelectSeq(ContextFetches, LAMBDA e : e.status = 200)[i].path]
        /\ log[1].status = 200 =>
               pe.relevant_files =
                   Take(SelectSeq(TreeOfMain, LAMBDA path : should_include(path, Lower(pe.text_body))),
                        CONTEXT_LIMIT)
        /\ log[1].status # 200 =>
               /\ ContextFetches = <<>>
               /\ pe.repo_context \in {Some(CTX_EMPTY), Some(CTX_UNABLE)}

\* the tree held more than 8 relevant paths, 8 were asked for, one fetch raised
\* and the next one was answered, and the completion request was issued
C19_Witness ==
    /\ pe.pc = "generating"
    /\ Len(SelectSeq(TreeOfMain, LAMBDA path : should_include(path, Lower(pe.text_body)))) > CONTEXT_LIMIT
    /\ Len(ContextFetches) = CONTEXT_LIMIT
    /\ \E i \in 1..(Len(ContextFetches) - 1) :
           ContextFetches[i].status = 0 /\ ContextFetches[i + 1].status = 200
    /\ Len(pe.included) < CONTEXT_LIMIT
    /\ log[Len(log)].req = "completion"

\* the request for the tree failed and the completion request was still issued
C19_TreeFailureWitness ==
    /\ pe.pc = "generating"
    /\ log[1].req = "get_tree" /\ log[1].status # 200
    /\ pe.repo_context \in {Some(CTX_EMPTY), Some(CTX_UNABLE)}
    /\ Len(log) = 2 /\ log[2].req = "completion"

(***************************************************************************)
(* The file set the generator hands on (SpecParse).                        *)
(***************************************************************************)
\* C20: for every reply of a completion call that succeeded, the generator
\* returns a file set, and the set is not empty: at least one file reaches
\* the committer, also when every block of the reply names readme.md, license,
\* license.md or .gitignore.
C20_FileSetNonEmpty ==
    GenDone => (gen.pc = "returned" /\ gen.cleaned_files # <<>>)

(***************************************************************************)
(* Properties of the notifications of one run (Spec).                      *)
(***************************************************************************)
\* the places of the log with a notification e-mail
Notifications == {j \in 1..Len(log) : IsNotification(j)}

\* C21: a run of the pipeline attempts at most one notification e-mail, and
\* its kind is that of the outcome: the success e-mail only in a run that
\* returns "success", after the pull request was created; the failure e-mail
\* only in a run that returns "error"; none in a run that returns "ignored".
C21_OneNotificationOfTheOutcome ==
    /\ Cardinality(Notifications) <= 1
    /\ \A j \in Places(1, "send_email_response") :
           \E i \in Places(1, "create_pr") : i < j /\ log[i].status = 201
    /\ pe.pc = "done" =>
        /\ Places(1, "send_email_response") # {} => pe.result.status = "success"
        /\ Places(1, "send_error_email") # {} => pe.result.status = "error"
        /\ pe.result.status = "ignored" => Notifications = {}

\* a run whose success e-mail was not delivered has returned "success"
C21_Witness ==
    /\ hd.pc = "responded"
    /\ Len(log) > 0
    /\ log[Len(log)].req = "send_email_response"
    /\ log[Len(log)].status # 200
    /\ Cardinality(Notifications) = 1
    /\ hd.resp.body.status = "success"

(***************************************************************************)
(* The generator's file set in the committer (Spec).                       *)
(***************************************************************************)
\* the committer was called by process_email
Composed == pe.pc # "idle" /\ cm[1].pc # "idle"

\* C22: when the committer is called with the generator's file set, its
\* license skip applies to no path, and a run that returns "success" reports
\* as files_created the number of writes the committer issued.
C22_FilesCreatedAreWrites ==
    /\ Composed =>
           \A i \in 1..Len(cm[1].files) : ~WholePathLicense(cm[1].files[i].path, cm[1].files)
    /\ (pe.pc = "done" /\ pe.result.status = "success") =>
           /\ pe.result.files_created = Cardinality(Places(1, "put_file"))
           /\ pe.result.files_created = Len(cm[1].files)

\* a run whose generator returned a license file alone has written it and
\* reports one file
C22_Witness ==
    /\ hd.pc = "responded"
    /\ hd.resp.body.status = "success"
    /\ hd.resp.body.files_created = 1
    /\ Len(cm[1].files) = 1
    /\ Lower(cm[1].files[1].path) = STR_license_md
    /\ Cardinality(Reqs(1, "put_file", cm[1].files[1].path)) = 1

(***************************************************************************)
(* Two runs on one repository (SpecTwoRuns).                               *)
(***************************************************************************)
\* the places of the log where run r's branch creation was accepted
BranchCreated(r) == {j \in Places(r, "create_branch") : log[j].status = 201}

\* the requests of run r that read or write a file
FileRequests(r) == Places(r, "get_file") \cup Places(r, "put_file")

\* C23: two runs on one repository never write to the same branch. When both
\* took the same branch name from the clock, the creation of the branch is
\* accepted for one of them at most, and the other one raises at the branch
\* creation, having read and written no file.
C23_NoSharedBranch ==
    /\ \A i, j \in PutIdx : log[i].run # log[j].run => log[i].ref # log[j].ref
    /\ \A r, q \in RunIds :
        (r # q /\ cm[r].pc # "start" /\ cm[q].pc # "start" /\ cm[r].branch = cm[q].branch) =>
            /\ BranchCreated(r) = {} \/ BranchCreated(q) = {}
            /\ (BranchCreated(q) # {} /\ Places(r, "create_branch") # {}) =>
                   /\ cm[r].pc = "raised"
                   /\ FileRequests(r) = {}
                   /\ Places(r, "create_pr") = {}

\* both runs took the same branch name; one has written its file and opened
\* the pull request, the other one was refused the branch and has raised
C23_Witness ==
    \E r, q \in RunIds :
        /\ r # q
        /\ cm[r].branch = cm[q].branch
        /\ cm[q].pc = "returned" /\ Places(q, "put_file") # {}
        /\ cm[r].pc = "raised"
        /\ \E j \in Places(r, "create_branch") : log[j].status = 422
        /\ FileRequests(r) = {}

(***************************************************************************)
(* The hash read on the default branch and the write on the new branch     *)
(* (SpecCommit).                                                           *)
(***************************************************************************)
\* nobody has pushed to the default branch since run r resolved its base hash
DefaultUnchanged(r) == cm[r].base_sha = Len(commits)

\* the path written at place j of the log was there when the base hash was resolved
PreExisting(j) == HashAt(commits[cm[log[j].run].base_sha], log[j].path) # NoHash

\* the write at place j was refused for its hash
HashRefused(j) == log[j].status \in {409, 422}

====
